---- MODULE Spec2Model ----
(***************************************************************************)
(* Transport relay layer of the GLaDOS web client:                         *)
(*   - ReconnectingClient : GLaDOSWebSocket (src/unnamed/part_002)         *)
(*   - StreamProxy        : the TCP proxy (src/k8s-proxy/main.go and its   *)
(*                          done-channel variant src/unnamed/part_004)     *)
(*   - BridgeSession      : the WebSocket bridge (bridge_server.py is not  *)
(*                          part of the sources; modelled from spec.md and *)
(*                          from the bridge's README in src/scripts)       *)
(* Each component has its own specification (SpecClient and SpecEvents,    *)
(* SpecProxy and SpecProxyShutdown, SpecBridge); the variables of the      *)
(* other components stay at their initial values.                          *)
(***************************************************************************)
EXTENDS Integers, Sequences, FiniteSets, TLC

(* ------------------------------ bounds --------------------------------- *)
\* transports that may be alive (not yet closed) at the same time
MaxLive == 2
\* retry timers that may be pending at the same time
MaxTimers == 1
\* consecutive failed connections explored
MaxAttempts == 11
\* handlers registered at the same time, over all events
MaxHandlers == 2
\* connections the proxy accepts
MaxConns == 2
\* bytes the peers of the proxy deliver in total, over all connections
MaxBytes == 2
\* front-side connections the bridge accepts
MaxSessions == 2
\* backend frames that may wait unread, over all backConns
MaxInbound == 2
\* bytes the two peers send in total in the runs that look at single steps
MaxStepBytes == 1
\* connections the listener hands out in the runs that look at termination
MaxTracked == 1
\* playAudio() calls made on the player
MaxChunks == 3
\* characters in the message of a text envelope
MaxLen == 3

VARIABLES
    \* ---- GLaDOSWebSocket fields (constructor, part_002:9-18) ----
    ws,                 \* this.ws: 0 (null) or the slot of the current transport
    token,              \* this.token: "" until connect() stores one
    reconnectDelay,     \* this.reconnectDelay (ms)
    shouldReconnect,    \* this.shouldReconnect
    authenticated,      \* this.authenticated
    connectionAttempts, \* this.connectionAttempts
    \* ---- environment of the client ----
    readyState,         \* readyState of every transport created and not yet collected
    timers,             \* number of pending setTimeout callbacks of scheduleReconnect
    \* ---- what the last step did (outputs of the step) ----
    emitted,            \* events passed to emit(), in order
    written,            \* envelopes handed to ws.send(), in order
    result,             \* return value of the outbound helper: "true", "false", "none"
    calls,              \* handler invocations made by emit(), in order
    listeners,          \* this.listeners: event name -> handlers in registration order
    \* ---- history ----
    authFailedLatch,    \* auth_failed was emitted and the caller has not called connect() since
    permanentLatch,     \* disconnect(true) was called and the caller has not called connect() since
    sinceOpen,          \* number of `reconnecting` events since the last successful open
    \* ---- StreamProxy: process-wide state (main.go:29-33, 51, 60) ----
    impl,               \* which source: "waitgroup" (k8s-proxy/main.go) or "donechan" (part_004)
    listener,           \* "open" or "closed"
    mainPc,             \* main goroutine: "accept", "stopping" (left the loop), "exited"
    sigPc,              \* signal goroutine: "waiting", "received", "done"
    activeConns,
    totalConns,
    totalBytes,
    \* ---- StreamProxy: one handleConnection per accepted connection ----
    hpc,                \* position of the handler goroutine
    connID,             \* connID (0 before it is assigned)
    clientConn,         \* "none", "open", "wclosed" (CloseWrite done), "closed"
    targetConn,         \* "none", "open", "wclosed", "closed"
    tuned,              \* the socket options of both legs have been set
    dials,              \* number of DialTimeout calls made for the connection
    dpc,                \* position of each copy direction
    copied,             \* bytes io.CopyBuffer has written so far, per direction
    bytesIn,            \* handler variable bytesIn
    bytesOut,           \* handler variable bytesOut
    \* ---- BridgeSession (spec.md section 3, Session) ----
    authState,          \* "Unauthenticated", "Authenticated", "Rejected"
    frontConn,          \* "none" (session not allocated), "open", "closed"
    backConn,           \* "null", "open", "closed"
    userIdentity,       \* "none" or the identity the backend returned
    inbound,            \* frames the backend has sent on backConn, not yet read
    authPending,        \* token sent to the backend for validation, "none" if none is awaited
    handled,            \* the envelope the front-side reader consumed in the last step
    toBack,             \* frames written to a backConn by the last step
    toFront,            \* envelopes written to a frontConn by the last step
    \* ---- translation of one text envelope (spec.md 4.3, section 6) ----
    txMessage,          \* the message field of the envelope, a sequence of code points
    txPc,               \* "idle", "sent", "echoed", "read"
    backBytes,          \* the bytes the bridge wrote to backConn
    echoBytes,          \* the bytes the backend sent back, not yet read
    envOut,             \* the envelope the bridge wrote to frontConn
    \* ---- AudioPlayer fields (constructor, part_001:138-144) ----
    audioContext,       \* this.audioContext exists
    playQueue,          \* this.playQueue: decoded buffers waiting, oldest first
    isPlaying,          \* this.isPlaying
    chunk,              \* per playAudio() call: "new", "decoding", "done"
    playing,            \* buffers whose source was started and has not ended
    notified            \* onPlaybackStart / onPlaybackEnd invoked by the last step

clientVars == <<ws, token, reconnectDelay, shouldReconnect, authenticated,
                connectionAttempts, readyState, timers, emitted, written, result,
                calls, listeners, authFailedLatch, permanentLatch, sinceOpen>>

proxyVars == <<impl, listener, mainPc, sigPc, activeConns, totalConns, totalBytes,
               hpc, connID, clientConn, targetConn, tuned, dials, dpc, copied,
               bytesIn, bytesOut>>

bridgeVars == <<authState, frontConn, backConn, userIdentity, inbound, authPending,
                handled, toBack, toFront>>

xlateVars == <<txMessage, txPc, backBytes, echoBytes, envOut>>

audioVars == <<audioContext, playQueue, isPlaying, chunk, playing, notified>>

vars == <<clientVars, proxyVars, bridgeVars, xlateVars, audioVars>>

\* the variables a step of one component leaves alone
notClient == <<proxyVars, bridgeVars, xlateVars, audioVars>>
notProxy == <<clientVars, bridgeVars, xlateVars, audioVars>>
notBridge == <<clientVars, proxyVars, xlateVars, audioVars>>
notXlate == <<clientVars, proxyVars, bridgeVars, audioVars>>
notAudio == <<clientVars, proxyVars, bridgeVars, xlateVars>>

(* ------------------------- ReconnectingClient -------------------------- *)
Slots == 1..MaxLive
NoWs == 0
NoToken == ""
Tokens == {"tokA", "tokB"}

\* this.maxReconnectDelay = 30000 (constructor)
maxReconnectDelay == 30000
\* reconnectDelay as set by the constructor and by onopen
baseReconnectDelay == 1000

\* Delays are kept in fixed point, in units of 2^-FracBits ms, so that
\* 1000 * 1.5^(n) = 1000 * 3^n / 2^n is exact for every n <= FracBits.
FracBits == MaxAttempts

RECURSIVE IPow(_, _)
IPow(b, n) == IF n = 0 THEN 1 ELSE b * IPow(b, n - 1)

ToFixed(ms) == ms * IPow(2, FracBits)

\* Math.pow(1.5, n), in fixed point
MathPow15(n) == IPow(3, n) * IPow(2, FracBits - n)

MathMin(a, b) == IF a <= b THEN a ELSE b

Ev(type) == [type |-> type, delay |-> 0, attempt |-> 0]

EvReconnecting(delay, attempt) == [type |-> "reconnecting", delay |-> delay, attempt |-> attempt]

EventTypes(evs) == {evs[i].type : i \in 1..Len(evs)}

\* the callbacks the caller may register; the ones in Throwing raise when invoked
Handlers == {"h1", "h2"}
Throwing == {"h1"}

\* the events the caller registers handlers for
RegEvents == {"disconnected", "reconnecting"}

Invocation(e, h) == [event |-> e, handler |-> h, threw |-> h \in Throwing]

RECURSIVE UpToThrow(_, _)
\* forEach without the try/catch: the first exception ends the iteration
UpToThrow(e, hs) ==
    IF hs = <<>> THEN <<>>
    ELSE IF Head(hs) \in Throwing THEN <<Invocation(e, Head(hs))>>
         ELSE <<Invocation(e, Head(hs))>> \o UpToThrow(e, Tail(hs))

\* emit whose iteration is ended by a handler that throws
emit_NoCatch(ev) ==
    IF ev.type \in RegEvents THEN UpToThrow(ev.type, listeners[ev.type]) ELSE <<>>

\* emit(event, data): every registered callback in array order, each inside
\* its own try/catch
emit(ev) ==
    IF ev.type \in RegEvents
    THEN [j \in 1..Len(listeners[ev.type]) |-> Invocation(ev.type, listeners[ev.type][j])]
    ELSE <<>>

RECURSIVE Deliver(_)
\* the invocations made by the emit() calls of one handler run, in order
Deliver(evs) == IF evs = <<>> THEN <<>> ELSE emit(Head(evs)) \o Deliver(Tail(evs))

\* A transport that is closed and no longer referenced by this.ws can never
\* be observed again: its slot is reused.
Collect(rs, w) == [t \in Slots |-> IF rs[t] = "closed" /\ t # w THEN "none" ELSE rs[t]]

FreeSlots == {t \in Slots : readyState[t] = "none"}

\* getStatus()
getStatus ==
    IF ws = NoWs THEN "disconnected"
    ELSE CASE readyState[ws] = "connecting" -> "connecting"
           [] readyState[ws] = "open" -> IF authenticated THEN "authenticated" ELSE "connected"
           [] readyState[ws] = "closing" -> "closing"
           [] readyState[ws] = "closed" -> "disconnected"
           [] OTHER -> "unknown"

\* isReady()
isReady == ws # NoWs /\ readyState[ws] = "open" /\ authenticated

\* send(message): the outcome of this.send on the transport states rs.
\* throws: ws.send raised, the catch branch runs.
send(msgType, tok, throws, rs) ==
    IF ws # NoWs /\ rs[ws] = "open"
    THEN IF throws
         THEN [written |-> <<>>, emitted |-> <<Ev("error")>>, result |-> "false"]
         ELSE [written |-> <<[to |-> ws, type |-> msgType, token |-> tok]>>,
               emitted |-> <<>>, result |-> "true"]
    ELSE [written |-> <<>>, emitted |-> <<>>, result |-> "false"]

\* a connect() that drops the previous transport handle when the constructor raises
connect_DropsHandle(tok, throws, pre) ==
    /\ token' = tok
    /\ shouldReconnect' = TRUE
    /\ IF throws
       THEN /\ ws' = NoWs
            /\ readyState' = readyState
            /\ emitted' = pre \o <<Ev("error")>>
       ELSE /\ FreeSlots # {}
            /\ LET t == CHOOSE s \in FreeSlots : \A u \in FreeSlots : s <= u
               IN /\ ws' = t
                  /\ readyState' = Collect([readyState EXCEPT ![t] = "connecting"], t)
            /\ emitted' = pre

\* connect(token): shared by the caller's connect() and by the retry timer.
\* throws: `new WebSocket(url)` raised; pre: events already emitted in this step.
connect(tok, throws, pre) ==
    /\ token' = tok
    /\ shouldReconnect' = TRUE
    /\ IF throws
       THEN /\ ws' = ws
            /\ readyState' = readyState
            /\ emitted' = pre \o <<Ev("error")>>
       ELSE /\ FreeSlots # {}
            /\ LET t == CHOOSE s \in FreeSlots : \A u \in FreeSlots : s <= u
               IN /\ ws' = t
                  /\ readyState' = Collect([readyState EXCEPT ![t] = "connecting"], t)
            /\ emitted' = pre

\* the caller calls connect(token)
Connect(tok, throws) ==
    /\ connect(tok, throws, <<>>)
    /\ written' = <<>>
    /\ result' = "none"
    /\ authFailedLatch' = FALSE
    /\ permanentLatch' = FALSE
    /\ calls' = Deliver(emitted')
    /\ UNCHANGED listeners
    /\ UNCHANGED notClient
    /\ UNCHANGED <<reconnectDelay, authenticated, connectionAttempts, timers, sinceOpen>>

\* ws.onopen of transport t
OnOpen(t, throws) ==
    /\ readyState[t] = "connecting"
    /\ readyState' = [readyState EXCEPT ![t] = "open"]
    /\ connectionAttempts' = 0
    /\ reconnectDelay' = baseReconnectDelay
    /\ LET s == send("auth", token, throws, readyState')
       IN /\ written' = s.written
          /\ emitted' = s.emitted \o <<Ev("connected")>>
    /\ result' = "none"
    /\ sinceOpen' = 0
    /\ calls' = Deliver(emitted')
    /\ UNCHANGED listeners
    /\ UNCHANGED notClient
    /\ UNCHANGED <<ws, token, shouldReconnect, authenticated, timers,
                   authFailedLatch, permanentLatch>>

\* what the server may deliver in one message event
Messages == {"unparseable", "auth_ok", "auth_error", "text", "audio",
             "history_response", "error"}

MsgType(m) == IF m \in {"auth_ok", "auth_error"} THEN "auth_response" ELSE m

\* ws.onmessage of transport t
OnMessage(t, m) ==
    /\ readyState[t] = "open"
    /\ CASE m = "unparseable" ->
              /\ emitted' = <<Ev("error")>>
              /\ UNCHANGED <<authenticated, shouldReconnect, authFailedLatch>>
         [] m = "auth_ok" ->
              /\ authenticated' = TRUE
              /\ emitted' = <<Ev("authenticated"), Ev("auth_response")>>
              /\ UNCHANGED <<shouldReconnect, authFailedLatch>>
         [] m = "auth_error" ->
              /\ authenticated' = FALSE
              /\ shouldReconnect' = FALSE
              /\ emitted' = <<Ev("auth_failed"), Ev("auth_response")>>
              /\ authFailedLatch' = TRUE
         [] OTHER ->
              /\ emitted' = <<Ev(MsgType(m))>>
              /\ UNCHANGED <<authenticated, shouldReconnect, authFailedLatch>>
    /\ written' = <<>>
    /\ result' = "none"
    /\ calls' = Deliver(emitted')
    /\ UNCHANGED listeners
    /\ UNCHANGED notClient
    /\ UNCHANGED <<ws, token, reconnectDelay, connectionAttempts, readyState, timers,
                   permanentLatch, sinceOpen>>

\* an onerror that also drops the authenticated flag
OnError_Resets(t) ==
    /\ readyState[t] \in {"connecting", "open", "closing"}
    /\ emitted' = <<Ev("error")>>
    /\ authenticated' = FALSE
    /\ written' = <<>>
    /\ result' = "none"
    /\ calls' = Deliver(emitted')
    /\ UNCHANGED listeners
    /\ UNCHANGED notClient
    /\ UNCHANGED <<ws, token, reconnectDelay, shouldReconnect,
                   connectionAttempts, readyState, timers,
                   authFailedLatch, permanentLatch, sinceOpen>>

\* ws.onerror of transport t
OnError(t) ==
    /\ readyState[t] \in {"connecting", "open", "closing"}
    /\ emitted' = <<Ev("error")>>
    /\ written' = <<>>
    /\ result' = "none"
    /\ calls' = Deliver(emitted')
    /\ UNCHANGED listeners
    /\ UNCHANGED notClient
    /\ UNCHANGED <<ws, token, reconnectDelay, shouldReconnect, authenticated,
                   connectionAttempts, readyState, timers,
                   authFailedLatch, permanentLatch, sinceOpen>>

\* scheduleReconnect with the exponent taken from the attempt count itself
reconnectDelayFor_OffByOne(attempts) ==
    MathMin(reconnectDelay * MathPow15(attempts), ToFixed(maxReconnectDelay))

\* scheduleReconnect without the Math.min against maxReconnectDelay
reconnectDelayFor_NoCap(attempts) ==
    reconnectDelay * MathPow15(attempts - 1)

\* the delay computed by scheduleReconnect for the given attempt count
reconnectDelayFor(attempts) ==
    MathMin(reconnectDelay * MathPow15(attempts - 1), ToFixed(maxReconnectDelay))

\* scheduleReconnect that arms the timer without announcing the retry
scheduleReconnect_NoEvent(pre) ==
    /\ connectionAttempts < MaxAttempts
    /\ timers < MaxTimers
    /\ connectionAttempts' = connectionAttempts + 1
    /\ emitted' = pre
    /\ timers' = timers + 1
    /\ sinceOpen' = sinceOpen + 1

\* scheduleReconnect that does not count the attempt
scheduleReconnect_NoCount(pre) ==
    /\ connectionAttempts < MaxAttempts
    /\ timers < MaxTimers
    /\ connectionAttempts' = connectionAttempts
    /\ emitted' = pre \o <<EvReconnecting(reconnectDelayFor(connectionAttempts + 1),
                                         connectionAttempts + 1)>>
    /\ timers' = timers + 1
    /\ sinceOpen' = sinceOpen + 1

\* scheduleReconnect(); pre: events already emitted by the calling handler
scheduleReconnect(pre) ==
    /\ connectionAttempts < MaxAttempts
    /\ timers < MaxTimers
    /\ connectionAttempts' = connectionAttempts + 1
    /\ emitted' = pre \o <<EvReconnecting(reconnectDelayFor(connectionAttempts'),
                                         connectionAttempts')>>
    /\ timers' = timers + 1
    /\ sinceOpen' = sinceOpen + 1

\* ws.onclose of transport t, with the scheduleReconnect() it may call
OnClose(t) ==
    /\ readyState[t] \in {"connecting", "open", "closing"}
    /\ readyState' = Collect([readyState EXCEPT ![t] = "closed"], ws)
    /\ authenticated' = FALSE
    /\ IF shouldReconnect
       THEN scheduleReconnect(<<Ev("disconnected")>>)
       ELSE /\ emitted' = <<Ev("disconnected")>>
            /\ UNCHANGED <<connectionAttempts, timers, sinceOpen>>
    /\ written' = <<>>
    /\ result' = "none"
    /\ calls' = Deliver(emitted')
    /\ UNCHANGED listeners
    /\ UNCHANGED notClient
    /\ UNCHANGED <<ws, token, reconnectDelay, shouldReconnect,
                   authFailedLatch, permanentLatch>>

\* a timer callback that does not call connect
RetryTimer_NoConnect(throws) ==
    /\ timers > 0
    /\ timers' = timers - 1
    /\ throws = FALSE
    /\ emitted' = <<>>
    /\ written' = <<>>
    /\ result' = "none"
    /\ calls' = Deliver(emitted')
    /\ UNCHANGED listeners
    /\ UNCHANGED notClient
    /\ UNCHANGED <<ws, token, shouldReconnect, readyState, reconnectDelay, authenticated,
                   connectionAttempts, authFailedLatch, permanentLatch, sinceOpen>>

\* the setTimeout callback of scheduleReconnect fires
RetryTimer(throws) ==
    /\ timers > 0
    /\ timers' = timers - 1
    /\ IF shouldReconnect /\ token # NoToken
       THEN connect(token, throws, <<>>)
       ELSE /\ throws = FALSE
            /\ emitted' = <<>>
            /\ UNCHANGED <<ws, token, shouldReconnect, readyState>>
    /\ written' = <<>>
    /\ result' = "none"
    /\ calls' = Deliver(emitted')
    /\ UNCHANGED listeners
    /\ UNCHANGED notClient
    /\ UNCHANGED <<reconnectDelay, authenticated, connectionAttempts,
                   authFailedLatch, permanentLatch, sinceOpen>>

\* the caller calls disconnect(permanent)
Disconnect(permanent) ==
    /\ shouldReconnect' = ~permanent
    /\ IF ws # NoWs
       THEN /\ readyState' = Collect([readyState EXCEPT ![ws] =
                                 IF @ \in {"connecting", "open"} THEN "closing" ELSE @], NoWs)
            /\ ws' = NoWs
       ELSE UNCHANGED <<ws, readyState>>
    /\ emitted' = <<>>
    /\ written' = <<>>
    /\ result' = "none"
    /\ permanentLatch' = (permanent \/ permanentLatch)
    /\ calls' = Deliver(emitted')
    /\ UNCHANGED listeners
    /\ UNCHANGED notClient
    /\ UNCHANGED <<token, reconnectDelay, authenticated, connectionAttempts, timers,
                   authFailedLatch, sinceOpen>>

\* sendText / sendAudio / requestHistory: thin wrappers around send()
Helper(msgType, throws) ==
    /\ LET s == send(msgType, NoToken, throws, readyState)
       IN /\ written' = s.written
          /\ emitted' = s.emitted
          /\ result' = s.result
    /\ calls' = Deliver(emitted')
    /\ UNCHANGED listeners
    /\ UNCHANGED notClient
    /\ UNCHANGED <<ws, token, reconnectDelay, shouldReconnect, authenticated,
                   connectionAttempts, readyState, timers,
                   authFailedLatch, permanentLatch, sinceOpen>>

sendText(throws) == Helper("text", throws)

sendAudio(throws) == Helper("audio", throws)

requestHistory(throws) == Helper("history_request", throws)

RECURSIVE Registered(_)
\* number of registered handlers over the events in E
Registered(E) ==
    IF E = {} THEN 0
    ELSE LET e == CHOOSE x \in E : TRUE
         IN Len(listeners[e]) + Registered(E \ {e})

\* on(event, callback)
On(e, h) ==
    /\ Registered(RegEvents) < MaxHandlers
    /\ listeners' = [listeners EXCEPT ![e] = Append(@, h)]
    /\ emitted' = <<>>
    /\ written' = <<>>
    /\ result' = "none"
    /\ calls' = <<>>
    /\ UNCHANGED notClient
    /\ UNCHANGED <<ws, token, reconnectDelay, shouldReconnect, authenticated,
                   connectionAttempts, readyState, timers,
                   authFailedLatch, permanentLatch, sinceOpen>>

\* off(event, callback)
Off(e, h) ==
    /\ listeners' = [listeners EXCEPT ![e] = SelectSeq(@, LAMBDA x : x # h)]
    /\ emitted' = <<>>
    /\ written' = <<>>
    /\ result' = "none"
    /\ calls' = <<>>
    /\ UNCHANGED notClient
    /\ UNCHANGED <<ws, token, reconnectDelay, shouldReconnect, authenticated,
                   connectionAttempts, readyState, timers,
                   authFailedLatch, permanentLatch, sinceOpen>>

InitClient ==
    /\ ws = NoWs
    /\ token = NoToken
    /\ reconnectDelay = baseReconnectDelay
    /\ shouldReconnect = TRUE
    /\ authenticated = FALSE
    /\ connectionAttempts = 0
    /\ readyState = [t \in Slots |-> "none"]
    /\ timers = 0
    /\ emitted = <<>>
    /\ written = <<>>
    /\ result = "none"
    /\ calls = <<>>
    /\ listeners = [e \in RegEvents |-> <<>>]
    /\ authFailedLatch = FALSE
    /\ permanentLatch = FALSE
    /\ sinceOpen = 0

ClientStep ==
    \/ \E tok \in Tokens, throws \in BOOLEAN : Connect(tok, throws)
    \/ \E t \in Slots, throws \in BOOLEAN : OnOpen(t, throws)
    \/ \E t \in Slots, m \in Messages : OnMessage(t, m)
    \/ \E t \in Slots : OnError(t)
    \/ \E t \in Slots : OnClose(t)
    \/ \E throws \in BOOLEAN : RetryTimer(throws)
    \/ \E permanent \in BOOLEAN : Disconnect(permanent)
    \/ \E throws \in BOOLEAN : sendText(throws)
    \/ \E throws \in BOOLEAN : sendAudio(throws)
    \/ \E throws \in BOOLEAN : requestHistory(throws)

\* registration of handlers and the transport callbacks that emit events
EventStep ==
    \/ \E e \in RegEvents, h \in Handlers : On(e, h)
    \/ \E e \in RegEvents, h \in Handlers : Off(e, h)
    \/ \E tok \in Tokens : Connect(tok, FALSE)
    \/ \E t \in Slots : OnOpen(t, FALSE)
    \/ \E t \in Slots, m \in {"auth_ok", "auth_error"} : OnMessage(t, m)
    \/ \E t \in Slots : OnClose(t)

(* ----------------------------- StreamProxy ----------------------------- *)
Conns == 1..MaxConns
Dirs == {"c2t", "t2c"}
Impls == {"waitgroup", "donechan"}

\* the process is still running (main has not returned)
Running == mainPc # "exited"

\* totalBytesTransferred without the target->client direction
totalBytesTransferred_InOnly(c) == bytesIn[c]

\* totalBytesTransferred := bytesIn + bytesOut
totalBytesTransferred(c) == bytesIn[c] + bytesOut[c]

\* a wait that is satisfied as soon as one direction has signalled
BothDirectionsDone_Either(c) == \E d \in Dirs : dpc[c][d] = "done"

\* wg.Wait() (main.go) / own copy finished and <-done (part_004)
BothDirectionsDone(c) == \A d \in Dirs : dpc[c][d] = "done"

ProxyFields ==
    /\ listener = "open"
    /\ mainPc = "accept"
    /\ sigPc = "waiting"
    /\ activeConns = 0
    /\ totalConns = 0
    /\ totalBytes = 0
    /\ hpc = [c \in Conns |-> "idle"]
    /\ connID = [c \in Conns |-> 0]
    /\ clientConn = [c \in Conns |-> "none"]
    /\ targetConn = [c \in Conns |-> "none"]
    /\ tuned = [c \in Conns |-> FALSE]
    /\ dials = [c \in Conns |-> 0]
    /\ dpc = [c \in Conns |-> [d \in Dirs |-> "notstarted"]]
    /\ copied = [c \in Conns |-> [d \in Dirs |-> 0]]
    /\ bytesIn = [c \in Conns |-> 0]
    /\ bytesOut = [c \in Conns |-> 0]

InitProxy == impl \in Impls /\ ProxyFields

\* the proxy before it is started (used by the other components)
ProxyIdle == impl = "waitgroup" /\ ProxyFields

\* main: listener.Accept() returns a connection; go handleConnection(clientConn)
Accept(c) ==
    /\ mainPc = "accept"
    /\ listener = "open"
    /\ hpc[c] = "idle"
    /\ \A b \in Conns : b < c => hpc[b] # "idle"
    /\ hpc' = [hpc EXCEPT ![c] = "start"]
    /\ clientConn' = [clientConn EXCEPT ![c] = "open"]
    /\ UNCHANGED notProxy
    /\ UNCHANGED <<impl, listener, mainPc, sigPc, activeConns, totalConns, totalBytes,
                   connID, targetConn, tuned, dials, dpc, copied, bytesIn, bytesOut>>

\* signal goroutine: <-sigChan returns, the shutdown line is logged
Signal ==
    /\ Running
    /\ sigPc = "waiting"
    /\ sigPc' = "received"
    /\ UNCHANGED notProxy
    /\ UNCHANGED <<impl, listener, mainPc, activeConns, totalConns, totalBytes,
                   hpc, connID, clientConn, targetConn, tuned, dials, dpc, copied,
                   bytesIn, bytesOut>>

\* signal goroutine: listener.Close()
CloseListener ==
    /\ Running
    /\ sigPc = "received"
    /\ sigPc' = "done"
    /\ listener' = "closed"
    /\ UNCHANGED notProxy
    /\ UNCHANGED <<impl, mainPc, activeConns, totalConns, totalBytes,
                   hpc, connID, clientConn, targetConn, tuned, dials, dpc, copied,
                   bytesIn, bytesOut>>

\* main: Accept fails with "use of closed network connection"; break
AcceptClosed ==
    /\ mainPc = "accept"
    /\ listener = "closed"
    /\ mainPc' = "stopping"
    /\ UNCHANGED notProxy
    /\ UNCHANGED <<impl, listener, sigPc, activeConns, totalConns, totalBytes,
                   hpc, connID, clientConn, targetConn, tuned, dials, dpc, copied,
                   bytesIn, bytesOut>>

\* main: logs "Proxy stopped" and returns; the process ends with all its goroutines
MainReturn ==
    /\ mainPc = "stopping"
    /\ mainPc' = "exited"
    /\ UNCHANGED notProxy
    /\ UNCHANGED <<impl, listener, sigPc, activeConns, totalConns, totalBytes,
                   hpc, connID, clientConn, targetConn, tuned, dials, dpc, copied,
                   bytesIn, bytesOut>>

\* the id taken from a plain read of the counter, before the add
IncTotalConns_ReadThenAdd(c) ==
    /\ Running
    /\ hpc[c] = "start"
    /\ totalConns' = totalConns + 1
    /\ connID' = [connID EXCEPT ![c] = totalConns]
    /\ hpc' = [hpc EXCEPT ![c] = "incActive"]
    /\ UNCHANGED notProxy
    /\ UNCHANGED <<impl, listener, mainPc, sigPc, activeConns, totalBytes,
                   clientConn, targetConn, tuned, dials, dpc, copied, bytesIn, bytesOut>>

\* connID := atomic.AddInt64(&totalConns, 1)
IncTotalConns(c) ==
    /\ Running
    /\ hpc[c] = "start"
    /\ totalConns' = totalConns + 1
    /\ connID' = [connID EXCEPT ![c] = totalConns']
    /\ hpc' = [hpc EXCEPT ![c] = "incActive"]
    /\ UNCHANGED notProxy
    /\ UNCHANGED <<impl, listener, mainPc, sigPc, activeConns, totalBytes,
                   clientConn, targetConn, tuned, dials, dpc, copied, bytesIn, bytesOut>>

\* atomic.AddInt64(&activeConns, 1); the decrement is deferred
IncActiveConns(c) ==
    /\ Running
    /\ hpc[c] = "incActive"
    /\ activeConns' = activeConns + 1
    /\ hpc' = [hpc EXCEPT ![c] = "dial"]
    /\ UNCHANGED notProxy
    /\ UNCHANGED <<impl, listener, mainPc, sigPc, totalConns, totalBytes, connID,
                   clientConn, targetConn, tuned, dials, dpc, copied, bytesIn, bytesOut>>

\* the copy directions start: wg.Add(2) and the two `go func()` in main.go;
\* in part_004 the `go func()` for client->target, while the handler itself
\* runs the target->client copy
Started == [d \in Dirs |-> "copying"]

\* a handler that goes on as if connected when the dial has failed
Dial_IgnoreError(c, ok) ==
    /\ Running
    /\ hpc[c] = "dial"
    /\ dials' = [dials EXCEPT ![c] = @ + 1]
    /\ targetConn' = IF ok THEN [targetConn EXCEPT ![c] = "open"] ELSE targetConn
    /\ hpc' = [hpc EXCEPT ![c] = IF impl = "donechan" THEN "sockopts" ELSE "wait"]
    /\ dpc' = IF impl = "donechan" THEN dpc ELSE [dpc EXCEPT ![c] = Started]
    /\ UNCHANGED notProxy
    /\ UNCHANGED <<impl, listener, mainPc, sigPc, activeConns, totalConns, totalBytes,
                   connID, clientConn, tuned, copied, bytesIn, bytesOut>>

\* net.DialTimeout returns; ok = FALSE: refused or timed out. In main.go a
\* successful dial is followed at once by the start of the two directions.
Dial(c, ok) ==
    /\ Running
    /\ hpc[c] = "dial"
    /\ dials' = [dials EXCEPT ![c] = @ + 1]
    /\ IF ok
       THEN /\ targetConn' = [targetConn EXCEPT ![c] = "open"]
            /\ hpc' = [hpc EXCEPT ![c] = IF impl = "donechan" THEN "sockopts" ELSE "wait"]
            /\ dpc' = IF impl = "donechan" THEN dpc ELSE [dpc EXCEPT ![c] = Started]
       ELSE /\ targetConn' = targetConn
            /\ hpc' = [hpc EXCEPT ![c] = "dialFailed"]
            /\ dpc' = dpc
    /\ UNCHANGED notProxy
    /\ UNCHANGED <<impl, listener, mainPc, sigPc, activeConns, totalConns, totalBytes,
                   connID, clientConn, tuned, copied, bytesIn, bytesOut>>

\* the dial-failure branch without clientConn.Close()
CloseClientOnDialFail_Leak(c) ==
    /\ Running
    /\ hpc[c] = "dialFailed"
    /\ hpc' = [hpc EXCEPT ![c] = "deferred"]
    /\ UNCHANGED notProxy
    /\ UNCHANGED <<impl, listener, mainPc, sigPc, activeConns, totalConns, totalBytes,
                   connID, clientConn, targetConn, tuned, dials, dpc, copied,
                   bytesIn, bytesOut>>

\* the dial-failure branch closing every accepted client connection
CloseClientOnDialFail_CloseAll(c) ==
    /\ Running
    /\ hpc[c] = "dialFailed"
    /\ clientConn' = [b \in Conns |-> IF clientConn[b] = "none" THEN "none" ELSE "closed"]
    /\ hpc' = [hpc EXCEPT ![c] = "deferred"]
    /\ UNCHANGED notProxy
    /\ UNCHANGED <<impl, listener, mainPc, sigPc, activeConns, totalConns, totalBytes,
                   connID, targetConn, tuned, dials, dpc, copied, bytesIn, bytesOut>>

\* dial failed: clientConn.Close(); return
CloseClientOnDialFail(c) ==
    /\ Running
    /\ hpc[c] = "dialFailed"
    /\ clientConn' = [clientConn EXCEPT ![c] = "closed"]
    /\ hpc' = [hpc EXCEPT ![c] = "deferred"]
    /\ UNCHANGED notProxy
    /\ UNCHANGED <<impl, listener, mainPc, sigPc, activeConns, totalConns, totalBytes,
                   connID, targetConn, tuned, dials, dpc, copied, bytesIn, bytesOut>>

\* a done-channel handler that waits for the client->target direction only
\* and never runs its own target->client copy
SetSockOpts_OneDirection(c) ==
    /\ Running
    /\ hpc[c] = "sockopts"
    /\ tuned' = [tuned EXCEPT ![c] = TRUE]
    /\ dpc' = [dpc EXCEPT ![c] = [d \in Dirs |-> IF d = "c2t" THEN "copying" ELSE "done"]]
    /\ hpc' = [hpc EXCEPT ![c] = "wait"]
    /\ UNCHANGED notProxy
    /\ UNCHANGED <<impl, listener, mainPc, sigPc, activeConns, totalConns, totalBytes,
                   connID, clientConn, targetConn, dials, copied, bytesIn, bytesOut>>

\* part_004 only: SetNoDelay / SetKeepAlive / SetKeepAlivePeriod on both legs,
\* then the start of the two directions
SetSockOpts(c) ==
    /\ Running
    /\ hpc[c] = "sockopts"
    /\ tuned' = [tuned EXCEPT ![c] = TRUE]
    /\ dpc' = [dpc EXCEPT ![c] = Started]
    /\ hpc' = [hpc EXCEPT ![c] = "wait"]
    /\ UNCHANGED notProxy
    /\ UNCHANGED <<impl, listener, mainPc, sigPc, activeConns, totalConns, totalBytes,
                   connID, clientConn, targetConn, dials, copied, bytesIn, bytesOut>>

RECURSIVE SumCopied(_)
SumCopied(S) ==
    IF S = {} THEN 0
    ELSE LET c == CHOOSE x \in S : TRUE
         IN copied[c]["c2t"] + copied[c]["t2c"] + SumCopied(S \ {c})

\* io.CopyBuffer of direction d moves one more byte from its source to its destination
CopyByte(c, d) ==
    /\ Running
    /\ dpc[c][d] = "copying"
    /\ SumCopied(Conns) < MaxBytes
    /\ clientConn[c] # "closed" /\ targetConn[c] # "closed"
    /\ copied' = [copied EXCEPT ![c][d] = @ + 1]
    /\ UNCHANGED notProxy
    /\ UNCHANGED <<impl, listener, mainPc, sigPc, activeConns, totalConns, totalBytes,
                   hpc, connID, clientConn, targetConn, tuned, dials, dpc, bytesIn, bytesOut>>

\* the copy returns but its count is not stored
CopyReturn_NoRecord(c, d) ==
    /\ Running
    /\ dpc[c][d] = "copying"
    /\ dpc' = [dpc EXCEPT ![c][d] = "recorded"]
    /\ UNCHANGED notProxy
    /\ UNCHANGED <<impl, listener, mainPc, sigPc, activeConns, totalConns, totalBytes,
                   hpc, connID, clientConn, targetConn, tuned, dials, copied,
                   bytesIn, bytesOut>>

\* io.CopyBuffer of direction d returns n (end of stream or an I/O error);
\* bytesIn = n (client->target) or bytesOut = n (target->client)
CopyReturn(c, d) ==
    /\ Running
    /\ dpc[c][d] = "copying"
    /\ dpc' = [dpc EXCEPT ![c][d] = "recorded"]
    /\ bytesIn' = IF d = "c2t" THEN [bytesIn EXCEPT ![c] = copied[c][d]] ELSE bytesIn
    /\ bytesOut' = IF d = "t2c" THEN [bytesOut EXCEPT ![c] = copied[c][d]] ELSE bytesOut
    /\ UNCHANGED notProxy
    /\ UNCHANGED <<impl, listener, mainPc, sigPc, activeConns, totalConns, totalBytes,
                   hpc, connID, clientConn, targetConn, tuned, dials, copied>>

\* Close() where CloseWrite() is meant
HalfClose_Full(st) == "closed"

\* (*net.TCPConn).CloseWrite(): only the write side is shut down
HalfClose(st) == IF st = "open" THEN "wclosed" ELSE st

\* a direction that half-closes its destination and never signals completion
CloseWriteAndDone_NoSignal(c, d) ==
    /\ Running
    /\ dpc[c][d] = "recorded"
    /\ targetConn' = IF d = "c2t" THEN [targetConn EXCEPT ![c] = HalfClose(@)] ELSE targetConn
    /\ clientConn' = IF d = "t2c" THEN [clientConn EXCEPT ![c] = HalfClose(@)] ELSE clientConn
    /\ dpc' = [dpc EXCEPT ![c][d] = "halfclosed"]
    /\ UNCHANGED notProxy
    /\ UNCHANGED <<impl, listener, mainPc, sigPc, activeConns, totalConns, totalBytes,
                   hpc, connID, tuned, dials, copied, bytesIn, bytesOut>>

\* direction d half-closes its destination and signals completion:
\* targetConn.CloseWrite() (client->target) or clientConn.CloseWrite()
\* (target->client), then wg.Done() in main.go, close(done) in part_004; the
\* target->client copy of part_004 runs in the handler, which goes on to <-done.
CloseWriteAndDone(c, d) ==
    /\ Running
    /\ dpc[c][d] = "recorded"
    /\ targetConn' = IF d = "c2t" THEN [targetConn EXCEPT ![c] = HalfClose(@)] ELSE targetConn
    /\ clientConn' = IF d = "t2c" THEN [clientConn EXCEPT ![c] = HalfClose(@)] ELSE clientConn
    /\ dpc' = [dpc EXCEPT ![c][d] = "done"]
    /\ UNCHANGED notProxy
    /\ UNCHANGED <<impl, listener, mainPc, sigPc, activeConns, totalConns, totalBytes,
                   hpc, connID, tuned, dials, copied, bytesIn, bytesOut>>

\* the handler's wait returns; clientConn.Close()
CloseClient(c) ==
    /\ Running
    /\ hpc[c] = "wait"
    /\ BothDirectionsDone(c)
    /\ clientConn' = [clientConn EXCEPT ![c] = "closed"]
    /\ hpc' = [hpc EXCEPT ![c] = "closeTarget"]
    /\ UNCHANGED notProxy
    /\ UNCHANGED <<impl, listener, mainPc, sigPc, activeConns, totalConns, totalBytes,
                   connID, targetConn, tuned, dials, dpc, copied, bytesIn, bytesOut>>

\* targetConn.Close()
CloseTarget(c) ==
    /\ Running
    /\ hpc[c] = "closeTarget"
    /\ targetConn' = [targetConn EXCEPT ![c] = "closed"]
    /\ hpc' = [hpc EXCEPT ![c] = "addBytes"]
    /\ UNCHANGED notProxy
    /\ UNCHANGED <<impl, listener, mainPc, sigPc, activeConns, totalConns, totalBytes,
                   connID, clientConn, tuned, dials, dpc, copied, bytesIn, bytesOut>>

\* atomic.AddInt64(&totalBytes, bytesIn + bytesOut); the closing line is logged
AddTotalBytes(c) ==
    /\ Running
    /\ hpc[c] = "addBytes"
    /\ totalBytes' = totalBytes + totalBytesTransferred(c)
    /\ hpc' = [hpc EXCEPT ![c] = "deferred"]
    /\ UNCHANGED notProxy
    /\ UNCHANGED <<impl, listener, mainPc, sigPc, activeConns, totalConns,
                   connID, clientConn, targetConn, tuned, dials, dpc, copied,
                   bytesIn, bytesOut>>

\* a handler that returns without its deferred decrement of activeConns
Return_NoDecrement(c) ==
    /\ Running
    /\ hpc[c] = "deferred"
    /\ hpc' = [hpc EXCEPT ![c] = "returned"]
    /\ UNCHANGED notProxy
    /\ UNCHANGED <<impl, listener, mainPc, sigPc, activeConns, totalConns, totalBytes,
                   connID, clientConn, targetConn, tuned, dials, dpc, copied,
                   bytesIn, bytesOut>>

\* the handler returns: the deferred atomic.AddInt64(&activeConns, -1) runs
Return(c) ==
    /\ Running
    /\ hpc[c] = "deferred"
    /\ activeConns' = activeConns - 1
    /\ hpc' = [hpc EXCEPT ![c] = "returned"]
    /\ UNCHANGED notProxy
    /\ UNCHANGED <<impl, listener, mainPc, sigPc, totalConns, totalBytes,
                   connID, clientConn, targetConn, tuned, dials, dpc, copied,
                   bytesIn, bytesOut>>

\* the steps of the running proxy: the accept loop and the connection handlers
ProxyStep ==
    \/ \E c \in Conns : Accept(c)
    \/ \E c \in Conns : IncTotalConns(c)
    \/ \E c \in Conns : IncActiveConns(c)
    \/ \E c \in Conns, ok \in BOOLEAN : Dial(c, ok)
    \/ \E c \in Conns : CloseClientOnDialFail(c)
    \/ \E c \in Conns : SetSockOpts(c)
    \/ \E c \in Conns, d \in Dirs : CopyByte(c, d)
    \/ \E c \in Conns, d \in Dirs : CopyReturn(c, d)
    \/ \E c \in Conns, d \in Dirs : CloseWriteAndDone(c, d)
    \/ \E c \in Conns : CloseClient(c)
    \/ \E c \in Conns : CloseTarget(c)
    \/ \E c \in Conns : AddTotalBytes(c)
    \/ \E c \in Conns : Return(c)

\* the same steps with a shorter supply of bytes from the peers
LeanStep ==
    \/ \E c \in Conns : Accept(c)
    \/ \E c \in Conns : IncTotalConns(c)
    \/ \E c \in Conns : IncActiveConns(c)
    \/ \E c \in Conns, ok \in BOOLEAN : Dial(c, ok)
    \/ \E c \in Conns : CloseClientOnDialFail(c)
    \/ \E c \in Conns : SetSockOpts(c)
    \/ \E c \in Conns, d \in Dirs : SumCopied(Conns) < MaxStepBytes /\ CopyByte(c, d)
    \/ \E c \in Conns, d \in Dirs : CopyReturn(c, d)
    \/ \E c \in Conns, d \in Dirs : CloseWriteAndDone(c, d)
    \/ \E c \in Conns : CloseClient(c)
    \/ \E c \in Conns : CloseTarget(c)
    \/ \E c \in Conns : AddTotalBytes(c)
    \/ \E c \in Conns : Return(c)

\* the same with the termination signal and what follows it in main
ShutdownStep ==
    \/ ProxyStep
    \/ Signal
    \/ CloseListener
    \/ AcceptClosed
    \/ MainReturn

(* ---------------------------- BridgeSession ---------------------------- *)
Sessions == 1..MaxSessions

\* what the backend's authentication mechanism answers for a token
BridgeTokens == {"valid", "invalid", ""}

\* envelope types a client may send (section 6), and one the bridge does not know
ForwardedTypes == {"text", "audio", "history_request"}
EnvelopeTypes == ForwardedTypes \cup {"auth", "bogus"}

\* frame types the backend sends, each translated to the envelope of the same name
FrameTypes == {"text", "audio", "history_response", "error"}

Frame(s, type) == [session |-> s, type |-> type]

\* no envelope was consumed
NoEnvelope == [session |-> 0, type |-> "none"]

\* the envelopes a client may send: only an auth envelope carries a token
Envelopes ==
    {[type |-> "auth", token |-> tok] : tok \in BridgeTokens}
        \cup {[type |-> type, token |-> ""] : type \in EnvelopeTypes \ {"auth"}}

\* outcomes of the dial to the backend that handling env can meet: only an
\* auth envelope makes the bridge dial
DialOutcomes(env) == IF env.type = "auth" THEN BOOLEAN ELSE {TRUE}

RECURSIVE Unread(_)
\* number of backend frames not yet read, over the sessions in S
Unread(S) ==
    IF S = {} THEN 0
    ELSE LET s == CHOOSE x \in S : TRUE
         IN Len(inbound[s]) + Unread(S \ {s})

InitBridge ==
    /\ authState = [s \in Sessions |-> "Unauthenticated"]
    /\ frontConn = [s \in Sessions |-> "none"]
    /\ backConn = [s \in Sessions |-> "null"]
    /\ userIdentity = [s \in Sessions |-> "none"]
    /\ inbound = [s \in Sessions |-> <<>>]
    /\ authPending = [s \in Sessions |-> "none"]
    /\ handled = NoEnvelope
    /\ toBack = <<>>
    /\ toFront = <<>>

\* Accept(frontConn): a new Session, Unauthenticated
BridgeAccept(s) ==
    /\ frontConn[s] = "none"
    /\ \A r \in Sessions : r < s => frontConn[r] # "none"
    /\ frontConn' = [frontConn EXCEPT ![s] = "open"]
    /\ handled' = NoEnvelope
    /\ toBack' = <<>>
    /\ toFront' = <<>>
    /\ UNCHANGED notBridge
    /\ UNCHANGED <<authState, backConn, userIdentity, inbound, authPending>>

\* a gate that also lets an Unauthenticated session forward
MayForward_NoGate(s) == authState[s] \in {"Authenticated", "Unauthenticated"}

\* the state from which envelopes are translated and written to backConn
MayForward(s) == authState[s] = "Authenticated"

\* every envelope type taken as one the bridge can translate
Recognised_All(type) == TRUE

\* the envelope types the bridge translates into backend frames
Recognised(type) == type \in ForwardedTypes \cup {"auth"}

\* a protocol violation that is answered but leaves the session running
ProtocolViolation_KeepOpen(s) ==
    /\ toFront' = <<Frame(s, "error")>>
    /\ toBack' = <<>>
    /\ UNCHANGED <<authState, frontConn, backConn, authPending>>

\* a non-auth envelope on an Unauthenticated session: `error` envelope, then
\* the session is terminated
ProtocolViolation(s) ==
    /\ toFront' = <<Frame(s, "error")>>
    /\ frontConn' = [frontConn EXCEPT ![s] = "closed"]
    /\ toBack' = <<>>
    /\ UNCHANGED <<authState, backConn, authPending>>

\* The token of an auth envelope is validated by the backend: the bridge
\* establishes the TCP connection to GLaDOS and forwards the token on it
\* (README of the bridge: "TCP connection established to GLaDOS" is logged
\* before "Authenticated as ..."; "Bridge forwards tokens to GLaDOS for
\* validation").
ForwardToken(s, tok) ==
    /\ backConn' = [backConn EXCEPT ![s] = "open"]
    /\ authPending' = [authPending EXCEPT ![s] = tok]
    /\ toBack' = <<Frame(s, "auth")>>
    /\ toFront' = <<>>
    /\ UNCHANGED <<authState, frontConn>>

\* HandleEnvelope(env) on session s. dialOk: whether the backend connection
\* can be opened. The front-side reader handles no further envelope until
\* the backend's answer to a forwarded token is in (AuthResult).
HandleEnvelope(s, env, dialOk) ==
    /\ frontConn[s] = "open"
    /\ authState[s] # "Rejected"
    /\ authPending[s] = "none"
    /\ handled' = Frame(s, env.type)
    /\ IF MayForward(s)
       THEN IF Recognised(env.type)
            THEN /\ toBack' = <<Frame(s, env.type)>>
                 /\ toFront' = <<>>
                 /\ UNCHANGED <<authState, frontConn, backConn, authPending>>
            ELSE /\ toBack' = <<>>
                 /\ toFront' = <<Frame(s, "error")>>
                 /\ UNCHANGED <<authState, frontConn, backConn, authPending>>
       ELSE IF env.type = "auth"
            THEN IF env.token # "" /\ dialOk
                 THEN ForwardToken(s, env.token)
                 ELSE /\ authState' = [authState EXCEPT ![s] = "Rejected"]
                      /\ toFront' = <<Frame(s, "auth_response_error")>>
                      /\ frontConn' = [frontConn EXCEPT ![s] = "closed"]
                      /\ toBack' = <<>>
                      /\ UNCHANGED <<backConn, authPending>>
            ELSE ProtocolViolation(s)
    /\ UNCHANGED notBridge
    /\ UNCHANGED <<userIdentity, inbound>>

\* the backend's answer to the forwarded token arrives on backConn
AuthResult(s) ==
    /\ authPending[s] # "none"
    /\ frontConn[s] = "open"
    /\ backConn[s] = "open"
    /\ authPending' = [authPending EXCEPT ![s] = "none"]
    /\ IF authPending[s] = "valid"
       THEN /\ authState' = [authState EXCEPT ![s] = "Authenticated"]
            /\ userIdentity' = [userIdentity EXCEPT ![s] = "user"]
            /\ toFront' = <<Frame(s, "auth_response_ok")>>
            /\ UNCHANGED <<frontConn, backConn>>
       ELSE /\ authState' = [authState EXCEPT ![s] = "Rejected"]
            /\ toFront' = <<Frame(s, "auth_response_error")>>
            /\ frontConn' = [frontConn EXCEPT ![s] = "closed"]
            /\ backConn' = [backConn EXCEPT ![s] = "closed"]
            /\ UNCHANGED userIdentity
    /\ handled' = NoEnvelope
    /\ toBack' = <<>>
    /\ UNCHANGED notBridge
    /\ UNCHANGED inbound

\* the backend sends one frame on the backConn of session s
BackendSends(s, type) ==
    /\ backConn[s] = "open"
    /\ authPending[s] = "none"
    /\ Unread(Sessions) < MaxInbound
    /\ inbound' = [inbound EXCEPT ![s] = Append(@, type)]
    /\ handled' = NoEnvelope
    /\ toBack' = <<>>
    /\ toFront' = <<>>
    /\ UNCHANGED notBridge
    /\ UNCHANGED <<authState, frontConn, backConn, userIdentity, authPending>>

\* a reader that takes the newest waiting frame
BackReader_Newest(s) ==
    /\ backConn[s] = "open"
    /\ frontConn[s] = "open"
    /\ inbound[s] # <<>>
    /\ toFront' = <<Frame(s, inbound[s][Len(inbound[s])])>>
    /\ inbound' = [inbound EXCEPT ![s] = SubSeq(@, 1, Len(@) - 1)]
    /\ handled' = NoEnvelope
    /\ toBack' = <<>>
    /\ UNCHANGED notBridge
    /\ UNCHANGED <<authState, frontConn, backConn, userIdentity, authPending>>

\* a back-side reader that resets the session's authentication
BackReader_ResetsAuth(s) ==
    /\ backConn[s] = "open"
    /\ frontConn[s] = "open"
    /\ inbound[s] # <<>>
    /\ toFront' = <<Frame(s, Head(inbound[s]))>>
    /\ inbound' = [inbound EXCEPT ![s] = Tail(@)]
    /\ authState' = [authState EXCEPT ![s] = "Unauthenticated"]
    /\ handled' = NoEnvelope
    /\ toBack' = <<>>
    /\ UNCHANGED notBridge
    /\ UNCHANGED <<frontConn, backConn, userIdentity, authPending>>

\* backend-to-front reader: reads the next frame, translates it, writes the envelope
BackReader(s) ==
    /\ backConn[s] = "open"
    /\ frontConn[s] = "open"
    /\ inbound[s] # <<>>
    /\ toFront' = <<Frame(s, Head(inbound[s]))>>
    /\ inbound' = [inbound EXCEPT ![s] = Tail(@)]
    /\ handled' = NoEnvelope
    /\ toBack' = <<>>
    /\ UNCHANGED notBridge
    /\ UNCHANGED <<authState, frontConn, backConn, userIdentity, authPending>>

\* a teardown that closes the front side only
Teardown_FrontOnly(s) ==
    /\ frontConn[s] # "none"
    /\ frontConn[s] = "open" \/ backConn[s] = "open"
    /\ frontConn' = [frontConn EXCEPT ![s] = "closed"]
    /\ inbound' = [inbound EXCEPT ![s] = <<>>]
    /\ authPending' = [authPending EXCEPT ![s] = "none"]
    /\ handled' = NoEnvelope
    /\ toBack' = <<>>
    /\ toFront' = <<>>
    /\ UNCHANGED notBridge
    /\ UNCHANGED <<authState, backConn, userIdentity>>

\* teardown: the front side or the back side closed (error or EOF); the other
\* side is closed and the Session released
Teardown(s) ==
    /\ frontConn[s] # "none"
    /\ frontConn[s] = "open" \/ backConn[s] = "open"
    /\ frontConn' = [frontConn EXCEPT ![s] = "closed"]
    /\ backConn' = [backConn EXCEPT ![s] = IF @ = "open" THEN "closed" ELSE @]
    /\ inbound' = [inbound EXCEPT ![s] = <<>>]
    /\ authPending' = [authPending EXCEPT ![s] = "none"]
    /\ handled' = NoEnvelope
    /\ toBack' = <<>>
    /\ toFront' = <<>>
    /\ UNCHANGED notBridge
    /\ UNCHANGED <<authState, userIdentity>>

BridgeStep ==
    \/ \E s \in Sessions : BridgeAccept(s)
    \/ \E s \in Sessions, env \in Envelopes : \E dialOk \in DialOutcomes(env) :
          HandleEnvelope(s, env, dialOk)
    \/ \E s \in Sessions : AuthResult(s)
    \/ \E s \in Sessions, type \in FrameTypes : BackendSends(s, type)
    \/ \E s \in Sessions : BackReader(s)
    \/ \E s \in Sessions : Teardown(s)

(* ----------------------- envelope/frame translation -------------------- *)
\* code points of one, two and three UTF-8 bytes: h, e-acute, euro sign
Chars == {104, 233, 8364}

\* the messages a text envelope may carry
Texts == UNION {[1..n -> Chars] : n \in 0..MaxLen}

\* backend translation table: envelope type <-> frame tag
TagOf(type) == CASE type = "text" -> 1 [] type = "audio" -> 2 [] OTHER -> 0

TypeOf(tag) == CASE tag = 1 -> "text" [] tag = 2 -> "audio" [] OTHER -> "error"

\* UTF-8 bytes of one code point below 65536
Utf8Char(cp) ==
    IF cp < 128 THEN <<cp>>
    ELSE IF cp < 2048 THEN <<192 + (cp \div 64), 128 + (cp % 64)>>
    ELSE <<224 + (cp \div 4096), 128 + ((cp \div 64) % 64), 128 + (cp % 64)>>

RECURSIVE Utf8Encode(_)
\* the UTF-8 field: string -> bytes
Utf8Encode(str) ==
    IF str = <<>> THEN <<>> ELSE Utf8Char(Head(str)) \o Utf8Encode(Tail(str))

\* marks a payload that is not UTF-8
Malformed == <<-1>>

IsCont(b) == b >= 128 /\ b < 192

RECURSIVE Utf8Decode(_)
\* the UTF-8 field: bytes -> string, Malformed if the bytes are not UTF-8
Utf8Decode(b) ==
    IF b = <<>> THEN <<>>
    ELSE LET n == IF b[1] < 128 THEN 1
                  ELSE IF b[1] >= 192 /\ b[1] < 224 THEN 2
                  ELSE IF b[1] >= 224 /\ b[1] < 240 THEN 3
                  ELSE 0
         IN IF n = 0 \/ Len(b) < n \/ \E i \in 2..n : ~IsCont(b[i])
            THEN Malformed
            ELSE LET cp == CASE n = 1 -> b[1]
                             [] n = 2 -> (b[1] - 192) * 64 + (b[2] - 128)
                             [] n = 3 -> (b[1] - 224) * 4096 + (b[2] - 128) * 64
                                            + (b[3] - 128)
                     rest == Utf8Decode(SubSeq(b, n + 1, Len(b)))
                 IN IF rest = Malformed THEN Malformed ELSE <<cp>> \o rest

\* a frame whose length field counts characters instead of bytes
ws_to_glados_CharLen(msg) ==
    <<TagOf(msg.type), Len(msg.message)>> \o Utf8Encode(msg.message)

\* ws_to_glados(msg): type tag, length of the payload, payload
ws_to_glados(msg) ==
    LET payload == Utf8Encode(msg.message)
    IN <<TagOf(msg.type), Len(payload)>> \o payload

\* a frame is well formed: a known tag, and as many payload bytes as its
\* length field says
WellFormed(data) ==
    /\ Len(data) >= 2
    /\ data[1] \in {TagOf("text"), TagOf("audio")}
    /\ Len(data) = 2 + data[2]

\* read_glados_message(reader): the first complete frame of the stream and
\* what is left after it; no frame if the stream holds less than one
read_glados_message(stream) ==
    IF Len(stream) >= 2 /\ Len(stream) >= 2 + stream[2]
    THEN [frame |-> SubSeq(stream, 1, 2 + stream[2]),
          rest |-> SubSeq(stream, 3 + stream[2], Len(stream))]
    ELSE [frame |-> <<>>, rest |-> stream]

NoOut == [type |-> "none", message |-> <<>>, timestamp |-> ""]

\* glados_to_ws(data): frame type -> envelope type, payload -> UTF-8 field;
\* the envelope gets a timestamp
glados_to_ws(data) ==
    IF WellFormed(data)
    THEN [type |-> TypeOf(data[1]),
          message |-> Utf8Decode(SubSeq(data, 3, Len(data))),
          timestamp |-> "now"]
    ELSE [type |-> "error", message |-> <<>>, timestamp |-> "now"]

\* nothing to translate
XlateIdle ==
    /\ txMessage = <<>>
    /\ txPc = "idle"
    /\ backBytes = <<>>
    /\ echoBytes = <<>>
    /\ envOut = NoOut

\* a client is about to send a text envelope with some message
InitXlate ==
    /\ txMessage \in Texts
    /\ txPc = "idle"
    /\ backBytes = <<>>
    /\ echoBytes = <<>>
    /\ envOut = NoOut

\* HandleEnvelope on an Authenticated session: the text envelope is
\* translated and written to backConn
SendText ==
    /\ txPc = "idle"
    /\ backBytes' = ws_to_glados([type |-> "text", message |-> txMessage])
    /\ txPc' = "sent"
    /\ UNCHANGED <<txMessage, echoBytes, envOut>>
    /\ UNCHANGED notXlate

\* the backend echoes what it received
BackendEcho ==
    /\ txPc = "sent"
    /\ echoBytes' = backBytes
    /\ txPc' = "echoed"
    /\ UNCHANGED <<txMessage, backBytes, envOut>>
    /\ UNCHANGED notXlate

\* the backend reader takes one frame from backConn, translates it and
\* writes the envelope to frontConn
ReadEcho ==
    /\ txPc = "echoed"
    /\ LET r == read_glados_message(echoBytes)
       IN /\ envOut' = glados_to_ws(r.frame)
          /\ echoBytes' = r.rest
    /\ txPc' = "read"
    /\ UNCHANGED <<txMessage, backBytes>>
    /\ UNCHANGED notXlate

XlateStep ==
    \/ SendText
    \/ BackendEcho
    \/ ReadEcho

(* ----------------------------- AudioPlayer ----------------------------- *)
\* the audio chunks handed to playAudio(), one call each
Chunks == 1..MaxChunks

\* constructor
InitAudio ==
    /\ audioContext = FALSE
    /\ playQueue = <<>>
    /\ isPlaying = FALSE
    /\ chunk = [b \in Chunks |-> "new"]
    /\ playing = {}
    /\ notified = <<>>

\* playNext() called with queue q while the sources in pl are playing: an
\* empty queue ends playback; otherwise the oldest buffer is shifted off the
\* queue and a new source is started for it
playNext(q, pl) ==
    IF q = <<>>
    THEN /\ isPlaying' = FALSE
         /\ playQueue' = q
         /\ playing' = pl
         /\ notified' = <<"end">>
    ELSE /\ isPlaying' = TRUE
         /\ playQueue' = Tail(q)
         /\ playing' = pl \cup {Head(q)}
         /\ notified' = <<"start">>

\* playAudio(base64Audio) up to its await: the context is created if needed
\* and the decoding of chunk b is under way
PlayAudio(b) ==
    /\ chunk[b] = "new"
    /\ audioContext' = TRUE
    /\ chunk' = [chunk EXCEPT ![b] = "decoding"]
    /\ notified' = <<>>
    /\ UNCHANGED <<playQueue, isPlaying, playing>>
    /\ UNCHANGED notAudio

\* playAudio() resumes after decodeAudioData: the buffer is pushed and, if
\* isPlaying is false, playNext() is called; ok = FALSE: the decoding (or
\* resume) rejected and the catch branch only logs
Decoded(b, ok) ==
    /\ chunk[b] = "decoding"
    /\ chunk' = [chunk EXCEPT ![b] = "done"]
    /\ IF ok
       THEN IF ~isPlaying
            THEN playNext(Append(playQueue, b), playing)
            ELSE /\ playQueue' = Append(playQueue, b)
                 /\ notified' = <<>>
                 /\ UNCHANGED <<isPlaying, playing>>
       ELSE /\ notified' = <<>>
            /\ UNCHANGED <<playQueue, isPlaying, playing>>
    /\ UNCHANGED audioContext
    /\ UNCHANGED notAudio

\* source.onended of the source playing buffer b: playNext()
Ended(b) ==
    /\ b \in playing
    /\ playNext(playQueue, playing \ {b})
    /\ UNCHANGED <<audioContext, chunk>>
    /\ UNCHANGED notAudio

\* stop(): the queue is emptied and isPlaying reset; no source is stopped
Stop ==
    /\ playQueue' = <<>>
    /\ isPlaying' = FALSE
    /\ notified' = <<>>
    /\ UNCHANGED <<audioContext, chunk, playing>>
    /\ UNCHANGED notAudio

AudioStep ==
    \/ \E b \in Chunks : PlayAudio(b)
    \/ \E b \in Chunks, ok \in BOOLEAN : Decoded(b, ok)
    \/ \E b \in Chunks : Ended(b)
    \/ Stop

(* --------------------------- specifications ---------------------------- *)
InitAll == InitClient /\ ProxyIdle /\ InitBridge /\ XlateIdle /\ InitAudio

InitXlateAll == InitClient /\ ProxyIdle /\ InitBridge /\ InitXlate /\ InitAudio

SpecXlate == InitXlateAll /\ [][XlateStep]_vars

SpecClient == InitAll /\ [][ClientStep]_vars

SpecEvents == InitAll /\ [][EventStep]_vars

InitProxyAll == InitClient /\ InitProxy /\ InitBridge /\ XlateIdle /\ InitAudio

SpecProxy == InitProxyAll /\ [][ProxyStep]_vars

SpecProxySteps == InitProxyAll /\ [][LeanStep]_vars

\* what a handler does by itself once its connection is accepted, together
\* with the end of each direction's source: net.DialTimeout returns within the
\* timeout, and io.CopyBuffer returns when its source ends or fails
HandlerProgress ==
    \/ \E c \in Conns : IncTotalConns(c)
    \/ \E c \in Conns : IncActiveConns(c)
    \/ \E c \in Conns, ok \in BOOLEAN : Dial(c, ok)
    \/ \E c \in Conns : CloseClientOnDialFail(c)
    \/ \E c \in Conns : SetSockOpts(c)
    \/ \E c \in Conns, d \in Dirs : CopyReturn(c, d)
    \/ \E c \in Conns, d \in Dirs : CloseWriteAndDone(c, d)
    \/ \E c \in Conns : CloseClient(c)
    \/ \E c \in Conns : CloseTarget(c)
    \/ \E c \in Conns : AddTotalBytes(c)
    \/ \E c \in Conns : Return(c)

\* the steps of the proxy when the listener hands out MaxTracked connections
TrackedStep ==
    \/ \E c \in 1..MaxTracked : Accept(c)
    \/ \E c \in Conns : IncTotalConns(c)
    \/ \E c \in Conns : IncActiveConns(c)
    \/ \E c \in Conns, ok \in BOOLEAN : Dial(c, ok)
    \/ \E c \in Conns : CloseClientOnDialFail(c)
    \/ \E c \in Conns : SetSockOpts(c)
    \/ \E c \in Conns, d \in Dirs : CopyByte(c, d)
    \/ \E c \in Conns, d \in Dirs : CopyReturn(c, d)
    \/ \E c \in Conns, d \in Dirs : CloseWriteAndDone(c, d)
    \/ \E c \in Conns : CloseClient(c)
    \/ \E c \in Conns : CloseTarget(c)
    \/ \E c \in Conns : AddTotalBytes(c)
    \/ \E c \in Conns : Return(c)

\* goroutines are scheduled, and the source of every direction eventually ends
SpecProxyLive == InitProxyAll /\ [][TrackedStep]_vars /\ WF_vars(HandlerProgress)

SpecProxyShutdown == InitProxyAll /\ [][ShutdownStep]_vars

SpecBridge == InitAll /\ [][BridgeStep]_vars

SpecAudio == InitAll /\ [][AudioStep]_vars

\* sessions whose front-side connection is open
LiveSessions == {s \in Sessions : frontConn[s] = "open"}

\* transports of the client that have not reported their close
LiveTransports == {t \in Slots : readyState[t] \in {"connecting", "open", "closing"}}

\* a transport may be dropped while the bridge can still accept the
\* connection that replaces it and the attempt counter has room
MayDrop ==
    /\ connectionAttempts < MaxAttempts
    /\ LiveSessions = {} \/ \E s \in Sessions : frontConn[s] = "none"

\* what the client and the bridge do by themselves once the caller has
\* connected: the close event after close(), the bridge's teardown of the
\* session whose client is gone, the retry timer, the bridge accepting the
\* new connection, the open event, the auth envelope sent by onopen reaching
\* the bridge with the backend reachable, the backend's answer, and the
\* auth_response reaching the client
RecoveryProgress ==
    \/ \E t \in Slots : readyState[t] = "closing" /\ OnClose(t)
    \/ \E s \in Sessions : LiveTransports = {} /\ Teardown(s)
    \/ LiveSessions = {} /\ LiveTransports = {} /\ RetryTimer(FALSE)
    \/ \E s \in Sessions :
          LiveSessions = {} /\ (\E t \in Slots : readyState[t] = "connecting")
            /\ BridgeAccept(s)
    \/ \E t \in Slots : LiveSessions # {} /\ OnOpen(t, FALSE)
    \/ \E s \in Sessions :
          /\ ws # NoWs /\ readyState[ws] = "open"
          /\ authState[s] = "Unauthenticated"
          /\ HandleEnvelope(s, [type |-> "auth", token |-> "valid"], TRUE)
    \/ \E s \in Sessions : AuthResult(s)
    \/ \E s \in LiveSessions :
          /\ authState[s] = "Authenticated" /\ ~authenticated
          /\ ws # NoWs
          /\ OnMessage(ws, "auth_ok")

\* the caller connects once with a token the backend accepts and may call
\* disconnect(false); the network may drop the transport at any time
RecoveryStep ==
    \/ \E tok \in Tokens : token = NoToken /\ Connect(tok, FALSE)
    \/ \E t \in Slots : MayDrop /\ readyState[t] \in {"connecting", "open"} /\ OnClose(t)
    \/ MayDrop /\ ws # NoWs /\ readyState[ws] \in {"connecting", "open"} /\ Disconnect(FALSE)
    \/ RecoveryProgress

\* timers fire, events are delivered and the bridge serves its connections
SpecRecovery == InitAll /\ [][RecoveryStep]_vars /\ WF_vars(RecoveryProgress)

\* the proxy's handlers up to the dial and its outcome, and the bridge's
\* sessions up to the authentication that makes it dial
DialStep ==
    \/ \E c \in Conns : Accept(c)
    \/ \E c \in Conns : IncTotalConns(c)
    \/ \E c \in Conns : IncActiveConns(c)
    \/ \E c \in Conns, ok \in BOOLEAN : Dial(c, ok)
    \/ \E c \in Conns : CloseClientOnDialFail(c)
    \/ \E c \in Conns : SetSockOpts(c)
    \/ \E c \in Conns : Return(c)
    \/ \E s \in Sessions : BridgeAccept(s)
    \/ \E s \in Sessions, dialOk \in BOOLEAN :
          HandleEnvelope(s, [type |-> "auth", token |-> "valid"], dialOk)
    \/ \E s \in Sessions : AuthResult(s)

SpecDial == InitProxyAll /\ [][DialStep]_vars

(* ---------------------- properties of the client ----------------------- *)
\* this step created a transport (new WebSocket succeeded)
NewTransport == \E t \in Slots : readyState'[t] = "connecting" /\ readyState[t] # "connecting"

Reconnecting(evs) == {i \in 1..Len(evs) : evs[i].type = "reconnecting"}

\* C1: after `auth_failed` has been emitted, and until the caller calls
\* connect() again, no step emits `reconnecting` and no step opens a new
\* transport, whatever transport events and caller operations follow.
C1_NoRetryAfterAuthFailed ==
    [][(authFailedLatch /\ authFailedLatch')
         => (~NewTransport /\ Reconnecting(emitted') = {})]_vars

\* C4: after disconnect(true), and until the caller calls connect() again,
\* no step emits `reconnecting` and no step opens a new transport (a retry
\* timer that fires in between does nothing).
C4_NoRetryAfterPermanentDisconnect ==
    [][(permanentLatch /\ permanentLatch')
         => (~NewTransport /\ Reconnecting(emitted') = {})]_vars

\* C5: whenever the session is not ready (isReady() false), a call of
\* sendText, sendAudio or requestHistory writes nothing to the transport and
\* returns false.
C5_HelpersFailWhenNotReady ==
    [][(~isReady /\ result' # "none") => (written' = <<>> /\ result' = "false")]_vars

\* the sequence 1000, 1500, 2250, 3375, ... (each term 1.5 times the one
\* before), in fixed point and without the cap
RECURSIVE Uncapped(_)
Uncapped(k) == IF k = 1 THEN ToFixed(1000) ELSE (Uncapped(k - 1) * 3) \div 2

\* C7: the k-th consecutive `reconnecting` event since the last successful
\* open carries attempt = k and delay = min(1000 * 1.5^(k-1), 30000) ms:
\* 1000, 1500, 2250, 3375, ..., never more than 30000.
C7_BackoffSequence ==
    \A i \in Reconnecting(emitted) :
        LET k == emitted[i].attempt
            d == emitted[i].delay
        IN /\ k = sinceOpen
           /\ k >= 1
           /\ d = MathMin(Uncapped(k), ToFixed(30000))
           /\ d <= ToFixed(30000)
           /\ (k = 1 => d = ToFixed(1000))
           /\ (k = 2 => d = ToFixed(1500))
           /\ (k = 3 => d = ToFixed(2250))
           /\ (k = 4 => d = ToFixed(3375))

\* C7 witness: a fourth consecutive failure has been announced with 3375 ms
C7_Witness ==
    \E i \in Reconnecting(emitted) :
        emitted[i].attempt = 4 /\ emitted[i].delay = ToFixed(3375) /\ sinceOpen = 4

\* C8 as stated: from attempt 9 on the delay is exactly 30000 ms.
C8_CapFromAttempt9 ==
    \A i \in Reconnecting(emitted) :
        emitted[i].attempt >= 9 => emitted[i].delay = ToFixed(30000)

\* C8 amended: in a run of consecutive failures the delay is exactly 30000 ms
\* at attempt 10 and at every later attempt; at attempt 9 it is still
\* 1000 * 1.5^8 = 25628.90625 ms (6561000 / 256), below the cap.
C8_CapFromAttempt10 ==
    \A i \in Reconnecting(emitted) :
        /\ emitted[i].attempt >= 10 => emitted[i].delay = ToFixed(30000)
        /\ emitted[i].attempt = 9 => /\ emitted[i].delay = 6561000 * IPow(2, FracBits - 8)
                                     /\ emitted[i].delay < ToFixed(30000)

\* C8 witness: the tenth consecutive failure, announced with the capped delay
C8_Witness ==
    \E i \in Reconnecting(emitted) :
        emitted[i].attempt = 10 /\ sinceOpen = 10 /\ emitted[i].delay = ToFixed(30000)

\* this step is the close event of transport t
Closes(t) ==
    /\ readyState[t] \in {"connecting", "open", "closing"}
    /\ readyState'[t] \in {"closed", "none"}

\* this step is the open event of transport t
Opens(t) == readyState[t] = "connecting" /\ readyState'[t] = "open"

\* this step is a retry timer firing
TimerFires == timers' = timers - 1

C14_ResetOnOpenIncrementOnClose ==
    [][\A t \in Slots :
         /\ Opens(t) => connectionAttempts' = 0 /\ reconnectDelay' = 1000
         /\ Closes(t) => connectionAttempts' = connectionAttempts + 1]_vars

\* C14 amended: every open event resets connectionAttempts to 0 and
\* reconnectDelay to 1000; a close event increments connectionAttempts by
\* one when shouldReconnect is true (a retry is scheduled) and leaves it
\* unchanged when shouldReconnect is false; no other step changes it.
C14_IncrementOnlyWhenRetrying ==
    [][/\ \A t \in Slots :
            /\ Opens(t) => connectionAttempts' = 0 /\ reconnectDelay' = 1000
            /\ (Closes(t) /\ shouldReconnect)
                  => connectionAttempts' = connectionAttempts + 1
            /\ (Closes(t) /\ ~shouldReconnect)
                  => connectionAttempts' = connectionAttempts
       /\ (\A t \in Slots : ~Opens(t) /\ ~Closes(t))
            => connectionAttempts' = connectionAttempts]_vars

\* C14 witness: after one counted drop, a transport closed while
\* shouldReconnect was false and the count stayed at 1
C14_Witness ==
    /\ connectionAttempts = 1
    /\ ~shouldReconnect
    /\ emitted = <<Ev("disconnected")>>

\* C15: `authenticated` is true only while the current transport is open
\* (between the successful auth_response and the next close or disconnect()).
C15_AuthenticatedOnlyWhileConnected ==
    authenticated => (ws # NoWs /\ readyState[ws] = "open")

\* C16: the open event of a transport writes {type: auth, token} with the
\* stored token to that transport and then emits `connected`, and the
\* session is not ready right after the open (no auth_response can have
\* arrived on the new transport yet).
C16_AuthFirstAndNotReady ==
    [][\A t \in Slots :
         (Opens(t) /\ "error" \notin EventTypes(emitted'))
            => /\ written' = <<[to |-> t, type |-> "auth", token |-> token]>>
               /\ emitted' = <<Ev("connected")>>
               /\ ~isReady']_vars

\* C18: disconnect(false) leaves shouldReconnect as a transport drop would
\* (unchanged), so the retry decision at the close event is the one a drop
\* would have led to.
C18_DisconnectFalseIsADrop ==
    [][Disconnect(FALSE) => shouldReconnect' = shouldReconnect]_vars

\* number of invocations due to the first i events of evs
RECURSIVE CallsBefore(_, _)
CallsBefore(evs, i) ==
    IF i = 0 THEN 0
    ELSE CallsBefore(evs, i - 1)
           + (IF evs[i].type \in RegEvents THEN Len(listeners[evs[i].type]) ELSE 0)

\* C17: for every event emitted by a step, every handler registered for it
\* has been invoked exactly once by that step, in registration order and
\* event by event in emission order, whether or not an earlier handler
\* threw; and the events the callback emits after a throwing handler are
\* emitted and delivered as well.
C17_AllHandlersInOrder ==
    /\ Len(calls) = CallsBefore(emitted, Len(emitted))
    /\ \A i \in 1..Len(emitted) :
          emitted[i].type \in RegEvents =>
            \A j \in 1..Len(listeners[emitted[i].type]) :
                LET c == calls[CallsBefore(emitted, i - 1) + j]
                IN c.event = emitted[i].type /\ c.handler = listeners[emitted[i].type][j]

\* C17 witness: a close event was delivered to a throwing handler and then
\* to the handler registered after it, and the callback went on to emit
\* `reconnecting`
C17_Witness ==
    /\ listeners["disconnected"] = <<"h1", "h2">>
    /\ Len(emitted) = 2 /\ emitted[2].type = "reconnecting"
    /\ Len(calls) = 2
    /\ calls[1].handler = "h1" /\ calls[1].threw
    /\ calls[2].handler = "h2" /\ calls[2].event = "disconnected"

\* this step emits `error` from one of: onerror, onmessage's catch branch,
\* an `error` envelope, the catch branch of send() in a helper
ErrorEventStep ==
    /\ emitted' # <<>>
    /\ emitted'[1].type = "error"
    /\ \/ \E t \in Slots : OnError(t)
       \/ \E t \in Slots, m \in {"unparseable", "error"} : OnMessage(t, m)
       \/ \E msgType \in {"text", "audio", "history_request"} : Helper(msgType, TRUE)

\* C30: a step that emits `error` from onerror, from an unparseable message,
\* from an `error` envelope or from a failed send leaves the transport as it
\* was (this.ws and every transport's readyState), and leaves authenticated,
\* connectionAttempts, shouldReconnect and the pending retry timers
\* unchanged; a failed send of the auth message inside onopen emits `error`
\* without closing the transport or changing authenticated or shouldReconnect.
C30_ErrorEventChangesNothing ==
    [][/\ ErrorEventStep
            => /\ ws' = ws
               /\ readyState' = readyState
               /\ authenticated' = authenticated
               /\ connectionAttempts' = connectionAttempts
               /\ shouldReconnect' = shouldReconnect
               /\ timers' = timers
       /\ (emitted' # <<>> /\ emitted'[1].type = "error"
             /\ \E t \in Slots : OnOpen(t, TRUE))
            => /\ ws' = ws
               /\ \A t \in Slots : readyState'[t] \notin {"closing", "closed"}
                                       \/ readyState'[t] = readyState[t]
               /\ authenticated' = authenticated
               /\ shouldReconnect' = shouldReconnect]_vars

\* C30 witness: a send failed on the open, authenticated transport; the
\* client is still ready
C30_Witness ==
    /\ emitted = <<Ev("error")>>
    /\ result = "false"
    /\ isReady
    /\ shouldReconnect

\* the client is ready on a session the bridge has authenticated
ReadyOnSession ==
    /\ isReady
    /\ \E s \in LiveSessions : authState[s] = "Authenticated" /\ backConn[s] = "open"

\* C27: whenever the client's transport has dropped (no transport is left
\* that has not reported its close), the client is eventually ready again,
\* on a session of the bridge that is open and Authenticated; and every
\* session the bridge accepts starts Unauthenticated, so that session was
\* authenticated anew.
C27_RecoversAfterDrop ==
    /\ (token # NoToken /\ LiveTransports = {}) ~> ReadyOnSession
    /\ [][\A s \in Sessions :
             (frontConn[s] = "none" /\ frontConn'[s] = "open")
               => authState'[s] = "Unauthenticated" /\ LiveSessions = {}]_vars

\* C27 witness: the first session was torn down after a drop and the client
\* is ready again on the second one
C27_Witness ==
    /\ ReadyOnSession
    /\ \E s, r \in Sessions :
          /\ s < r
          /\ frontConn[s] = "closed"
          /\ frontConn[r] = "open" /\ authState[r] = "Authenticated"
    /\ connectionAttempts = 0

\* C33: when an auth_response is handled the flags are set before any handler
\* runs and the specific event precedes the generic one, so that inside every
\* `authenticated` handler isReady() is true and inside every `auth_failed`
\* handler shouldReconnect is already false.
C33_ReadyInsideAuthenticatedHandler ==
    /\ (emitted # <<>> /\ emitted[1].type = "authenticated")
          => /\ emitted = <<Ev("authenticated"), Ev("auth_response")>>
             /\ isReady
    /\ (emitted # <<>> /\ emitted[1].type = "auth_failed")
          => /\ emitted = <<Ev("auth_failed"), Ev("auth_response")>>
             /\ ~shouldReconnect /\ ~authenticated

\* the transports that are connecting or open
LiveSlots == {t \in Slots : readyState[t] \in {"connecting", "open"}}

\* a callback of transport t runs
CallbackOf(t) ==
    \/ \E throws \in BOOLEAN : OnOpen(t, throws)
    \/ \E m \in Messages : OnMessage(t, m)
    \/ OnError(t)
    \/ OnClose(t)

\* C34: at most one transport is connecting or open at any time, and a
\* callback of a transport that is not the current one changes no field of
\* the client and schedules no retry.
C34_OneLiveTransport ==
    /\ [](Cardinality(LiveSlots) <= 1)
    /\ [][\A t \in Slots :
            (CallbackOf(t) /\ t # ws)
               => /\ UNCHANGED <<authenticated, shouldReconnect, connectionAttempts,
                                 reconnectDelay, timers>>
                  /\ emitted' = <<>>]_vars

\* connect() runs and `new WebSocket(url)` raises, in the caller's connect()
\* or in the one issued by the retry timer
ConstructorThrows ==
    \/ \E tok \in Tokens : Connect(tok, TRUE)
    \/ RetryTimer(TRUE)

\* C38: when the constructor raises inside connect(), exactly one `error`
\* event is emitted, connectionAttempts and the transport handle are left as
\* they were, no transport comes into being on which handlers could be
\* installed, and no retry is scheduled.
C38_ConstructorThrowIsOneError ==
    [][ConstructorThrows
         => /\ emitted' = <<Ev("error")>>
            /\ connectionAttempts' = connectionAttempts
            /\ ws' = ws
            /\ readyState' = readyState
            /\ timers' <= timers
            /\ written' = <<>>]_vars

\* the retry after a drop has met a constructor that raises: one `error`, the
\* handle still on the closed transport, the attempt counted once, no timer
C38_Witness ==
    /\ emitted = <<Ev("error")>>
    /\ ws # NoWs /\ readyState[ws] = "closed"
    /\ connectionAttempts = 1
    /\ timers = 0
    /\ shouldReconnect
    /\ LiveSlots = {}

(* ----------------------- properties of the proxy ----------------------- *)
\* the dial of connection c succeeded: the two legs are paired
Paired(c) == targetConn[c] # "none"

\* the dial of connection c failed
DialFailed(c) == dials[c] >= 1 /\ targetConn[c] = "none"

\* the handler of c has finished its teardown (both Close calls and the
\* accumulation into totalBytes, or the dial-failure branch)
TornDown(c) == hpc[c] \in {"deferred", "returned"}

RECURSIVE SumBytes(_)
SumBytes(S) ==
    IF S = {} THEN 0
    ELSE LET c == CHOOSE x \in S : TRUE
         IN bytesIn[c] + bytesOut[c] + SumBytes(S \ {c})

\* C3: on a paired connection neither clientConn nor targetConn is fully
\* closed before both copy directions have signalled completion.
C3_CloseOnlyAfterBothDirections ==
    \A c \in Conns :
        (Paired(c) /\ (clientConn[c] = "closed" \/ targetConn[c] = "closed"))
            => \A d \in Dirs : dpc[c][d] = "done"

\* C3 witness: a paired connection that carried bytes both ways is fully closed
C3_Witness ==
    \E c \in Conns :
        /\ clientConn[c] = "closed" /\ targetConn[c] = "closed"
        /\ \A d \in Dirs : copied[c][d] >= 1 /\ dpc[c][d] = "done"

\* C6: when the process exits after the termination signal, every connection
\* whose copy directions had been started has completed both of them
\* (shutdown terminates no connection mid-transfer).
C6_DrainBeforeExit ==
    mainPc = "exited" =>
        \A c \in Conns :
            (\E d \in Dirs : dpc[c][d] # "notstarted") => \A d \in Dirs : dpc[c][d] = "done"

\* C9: totalBytes is the sum of bytesIn + bytesOut over the connections whose
\* handler has finished its teardown, each counted once, in every
\* interleaving of the handlers.
C9_TotalBytesIsSum ==
    totalBytes = SumBytes({c \in Conns : TornDown(c)})

\* C9 witness: two connections that both carried bytes have been accounted
C9_Witness ==
    \E a, b \in Conns :
        /\ a # b
        /\ hpc[a] = "returned" /\ hpc[b] = "returned"
        /\ bytesIn[a] + bytesOut[a] >= 1 /\ bytesIn[b] + bytesOut[b] >= 1
        /\ totalBytes >= 2

\* C10: when the dial fails the client connection is closed by the very next
\* step of the handler, nothing is copied in either direction, the dial is not
\* retried, totalConns has counted the connection, totalBytes holds only the
\* bytes of paired connections, and activeConns counts exactly the handlers
\* that have not returned (so it is back to 0 when no other one is active).
C10_DialFailure ==
    /\ \A c \in Conns :
          DialFailed(c) =>
            /\ dials[c] = 1
            /\ hpc[c] \in {"dialFailed", "deferred", "returned"}
            /\ (hpc[c] # "dialFailed" => clientConn[c] = "closed")
            /\ \A d \in Dirs : dpc[c][d] = "notstarted" /\ copied[c][d] = 0
            /\ bytesIn[c] = 0 /\ bytesOut[c] = 0
            /\ connID[c] >= 1 /\ connID[c] <= totalConns
    /\ totalConns = Cardinality({c \in Conns : hpc[c] \notin {"idle", "start"}})
    /\ activeConns = Cardinality({c \in Conns :
                          hpc[c] \notin {"idle", "start", "incActive", "returned"}})
    /\ totalBytes = SumBytes({c \in Conns : TornDown(c) /\ Paired(c)})

\* C10 witness: the only connection failed to dial and its handler has returned
C10_Witness ==
    \E c \in Conns :
        /\ DialFailed(c) /\ hpc[c] = "returned" /\ clientConn[c] = "closed"
        /\ totalConns = 1 /\ activeConns = 0 /\ totalBytes = 0

\* the per-connection state of c changes in this step
Changed(c) ==
    <<hpc[c], connID[c], clientConn[c], targetConn[c], tuned[c], dials[c], dpc[c],
      copied[c], bytesIn[c], bytesOut[c]>>
      # <<hpc'[c], connID'[c], clientConn'[c], targetConn'[c], tuned'[c], dials'[c],
          dpc'[c], copied'[c], bytesIn'[c], bytesOut'[c]>>

\* this step is a failure step of c: the dial fails, the dial-failure branch
\* runs, or a copy direction returns (end of stream or I/O error)
FailureStep(c) ==
    \/ hpc[c] = "dial" /\ hpc'[c] = "dialFailed"
    \/ hpc[c] = "dialFailed" /\ hpc'[c] # "dialFailed"
    \/ \E d \in Dirs : dpc[c][d] = "copying" /\ dpc'[c][d] # "copying"

\* C21: a step of one connection (in particular a dial failure or a copy
\* that ends with an I/O error) changes no other connection's handles,
\* directions or byte counts and not the listener; a failure step changes
\* none of the process-wide counters; activeConns changes only by the +1 /
\* -1 of the connection that steps, and totalBytes only by that connection's
\* own bytesIn + bytesOut.
C21_FailureIsolation ==
    [][/\ listener' = listener
       /\ \A c \in Conns :
            Changed(c)
              => /\ \A b \in Conns \ {c} : ~Changed(b)
                 /\ FailureStep(c)
                      => /\ totalConns' = totalConns
                         /\ totalBytes' = totalBytes
                         /\ activeConns' = activeConns
                 /\ activeConns' # activeConns
                      => \/ hpc[c] = "incActive" /\ activeConns' = activeConns + 1
                         \/ hpc'[c] = "returned" /\ activeConns' = activeConns - 1
                 /\ totalBytes' # totalBytes
                      => totalBytes' = totalBytes + bytesIn[c] + bytesOut[c]]_vars

\* C21 witness: one connection failed to dial and its handler has returned
\* while another one, paired, has carried a byte and is still open
C21_Witness ==
    \E a, b \in Conns :
        /\ a # b
        /\ DialFailed(a) /\ hpc[a] = "returned"
        /\ Paired(b) /\ clientConn[b] = "open" /\ targetConn[b] = "open"
        /\ copied[b]["c2t"] + copied[b]["t2c"] >= 1
        /\ activeConns = 1 /\ totalConns = 2

\* C24: the ids handed out are pairwise distinct and are exactly
\* 1..totalConns; each newly assigned id is larger than every id assigned
\* before; an id once assigned does not change; totalConns never decreases.
C24_ConnIdsDistinctIncreasing ==
    [][/\ totalConns' >= totalConns
       /\ {connID'[c] : c \in {x \in Conns : connID'[x] # 0}} = 1..totalConns'
       /\ \A a, b \in Conns :
             (a # b /\ connID'[a] # 0 /\ connID'[b] # 0) => connID'[a] # connID'[b]
       /\ \A c \in Conns :
             connID'[c] # connID[c]
               => /\ connID[c] = 0
                  /\ \A b \in Conns : connID[b] < connID'[c]
                  /\ connID'[c] = totalConns'
                  /\ totalConns' = totalConns + 1]_vars

\* C24 witness: two handlers raced and the connection accepted second got
\* the smaller id
C24_Witness ==
    \E a, b \in Conns :
        a < b /\ connID[b] = 1 /\ connID[a] = 2 /\ totalConns = 2

\* C28: a direction that has ended has shut down only the write side of its
\* destination; while the opposite direction is still copying, neither
\* connection is fully closed and the write side of that direction's own
\* destination is still open, so it can go on writing what its source
\* delivers.
C28_HalfCloseKeepsOtherDirection ==
    \A c \in Conns :
        /\ dpc[c]["c2t"] = "done" /\ dpc[c]["t2c"] \in {"copying", "recorded"}
              => targetConn[c] = "wclosed" /\ clientConn[c] = "open"
        /\ dpc[c]["t2c"] = "done" /\ dpc[c]["c2t"] \in {"copying", "recorded"}
              => clientConn[c] = "wclosed" /\ targetConn[c] = "open"
        /\ (\E d \in Dirs : dpc[c][d] = "copying")
              => clientConn[c] # "closed" /\ targetConn[c] # "closed"

\* C28 witness: client->target ended without a byte and half-closed the
\* target; target->client has copied a byte since and is still copying
C28_Witness ==
    \E c \in Conns :
        /\ dpc[c]["c2t"] = "done" /\ bytesIn[c] = 0
        /\ targetConn[c] = "wclosed" /\ clientConn[c] = "open"
        /\ dpc[c]["t2c"] = "copying" /\ copied[c]["t2c"] >= 1

\* C29: bytesIn (bytesOut) holds its initial 0 until its direction's copy
\* has returned, from then on the number of bytes that direction copied,
\* already when the direction signals completion; and the handler is past
\* its wait (where it reads both) only when both directions have completed.
C29_ByteCountersRecordedOnce ==
    \A c \in Conns :
        /\ bytesIn[c] = IF dpc[c]["c2t"] \in {"recorded", "done"}
                          THEN copied[c]["c2t"] ELSE 0
        /\ bytesOut[c] = IF dpc[c]["t2c"] \in {"recorded", "done"}
                           THEN copied[c]["t2c"] ELSE 0
        /\ hpc[c] \in {"closeTarget", "addBytes"}
              => \A d \in Dirs : dpc[c][d] = "done"
        /\ (Paired(c) /\ TornDown(c)) => \A d \in Dirs : dpc[c][d] = "done"

\* C29 witness: both directions carried a byte, both counts are recorded and
\* the handler is about to read them
C29_Witness ==
    \E c \in Conns :
        /\ hpc[c] = "addBytes"
        /\ bytesIn[c] = 1 /\ bytesOut[c] = 1
        /\ copied[c]["c2t"] = 1 /\ copied[c]["t2c"] = 1

InFlight == {c \in Conns : hpc[c] \notin {"idle", "start", "incActive", "returned"}}

\* C35: 0 <= activeConns <= totalConns; activeConns is the number of handlers
\* that have done both increments and have not returned; once every accepted
\* connection's handler has returned, activeConns is 0.
C35_ActiveConnsCountsHandlers ==
    /\ 0 <= activeConns
    /\ activeConns <= totalConns
    /\ activeConns = Cardinality(InFlight)
    /\ (\A c \in Conns : hpc[c] \in {"idle", "returned"}) => activeConns = 0

\* one handler has returned while another is still in flight
C35_Witness ==
    /\ \E c \in Conns : hpc[c] = "returned"
    /\ \E c \in Conns : hpc[c] = "wait"
    /\ activeConns = 1
    /\ totalConns = 2

\* the handler of c has closed both connections, added the byte counts to
\* totalBytes and run its deferred decrement of activeConns
Finished(c) ==
    /\ hpc[c] = "returned"
    /\ clientConn[c] = "closed"
    /\ targetConn[c] \in {"none", "closed"}

\* C36: when goroutines are scheduled and the source of each direction
\* eventually ends, the handler of every accepted connection eventually closes
\* both connections, adds the byte counts to totalBytes and decrements
\* activeConns; in particular a connection one of whose directions has ended
\* is eventually torn down; and once handlers have finished, activeConns is
\* back to the number of handlers still in flight.
C36_HandlerTerminates ==
    /\ \A c \in Conns : (hpc[c] # "idle") ~> Finished(c)
    /\ \A c \in Conns, d \in Dirs :
          (dpc[c][d] \in {"recorded", "done"}) ~> (TornDown(c) /\ Finished(c))
    /\ [](\A c \in Conns : Finished(c) /\ Paired(c) =>
              totalBytes >= bytesIn[c] + bytesOut[c])

\* a paired connection that carried a byte has been torn down by its handler
C36_Witness ==
    \E c \in Conns :
        /\ Finished(c) /\ Paired(c)
        /\ copied[c]["c2t"] = 1 /\ copied[c]["t2c"] = 1
        /\ totalBytes = 2
        /\ activeConns = Cardinality(InFlight)

\* what a peer or an operator can observe of the proxy: the state of the two
\* connections of every handler and the three counters
obsVars == <<clientConn, targetConn, totalConns, activeConns, totalBytes>>

\* the observable effect of one step on connection c and the counters, stated
\* without reference to the variant that runs
ObsEffect(c) ==
    LET same(f) == f'[c] = f[c]
        others == \A x \in Conns \ {c} :
                      clientConn'[x] = clientConn[x] /\ targetConn'[x] = targetConn[x]
        counters == <<totalConns, activeConns, totalBytes>>
    IN  /\ others
        /\ \/ \* the connection is accepted
              /\ clientConn[c] = "none" /\ clientConn'[c] = "open"
              /\ same(targetConn) /\ counters' = counters
           \/ \* first increment, before anything else is done with the connection
              /\ totalConns' = totalConns + 1 /\ connID'[c] = totalConns'
              /\ clientConn[c] = "open" /\ targetConn[c] = "none"
              /\ same(clientConn) /\ same(targetConn)
              /\ activeConns' = activeConns /\ totalBytes' = totalBytes
           \/ \* second increment
              /\ activeConns' = activeConns + 1
              /\ clientConn[c] = "open" /\ targetConn[c] = "none"
              /\ same(clientConn) /\ same(targetConn)
              /\ totalConns' = totalConns /\ totalBytes' = totalBytes
           \/ \* the dial succeeds
              /\ targetConn[c] = "none" /\ targetConn'[c] = "open"
              /\ clientConn[c] = "open" /\ same(clientConn) /\ counters' = counters
           \/ \* the dial has failed: the client is closed, no target exists
              /\ clientConn[c] = "open" /\ clientConn'[c] = "closed"
              /\ dials[c] >= 1 /\ targetConn[c] = "none"
              /\ same(targetConn) /\ counters' = counters
           \/ \* client->target has ended: the target is half-closed
              /\ targetConn[c] = "open" /\ targetConn'[c] = "wclosed"
              /\ bytesIn[c] = copied[c]["c2t"]
              /\ clientConn[c] # "closed"
              /\ same(clientConn) /\ counters' = counters
           \/ \* target->client has ended: the client is half-closed
              /\ clientConn[c] = "open" /\ clientConn'[c] = "wclosed"
              /\ bytesOut[c] = copied[c]["t2c"]
              /\ targetConn[c] \in {"open", "wclosed"}
              /\ same(targetConn) /\ counters' = counters
           \/ \* both directions have ended: the client is closed
              /\ clientConn[c] = "wclosed" /\ clientConn'[c] = "closed"
              /\ targetConn[c] = "wclosed"
              /\ same(targetConn) /\ counters' = counters
           \/ \* then the target
              /\ targetConn[c] = "wclosed" /\ targetConn'[c] = "closed"
              /\ clientConn[c] = "closed"
              /\ same(clientConn) /\ counters' = counters
           \/ \* then the byte counts are added
              /\ totalBytes' = totalBytes + copied[c]["c2t"] + copied[c]["t2c"]
              /\ clientConn[c] = "closed" /\ targetConn[c] = "closed"
              /\ same(clientConn) /\ same(targetConn)
              /\ totalConns' = totalConns /\ activeConns' = activeConns
           \/ \* and the handler returns
              /\ activeConns' = activeConns - 1
              /\ clientConn[c] = "closed" /\ targetConn[c] \in {"none", "closed"}
              /\ same(clientConn) /\ same(targetConn)
              /\ totalConns' = totalConns /\ totalBytes' = totalBytes

\* the counters and connection states when no handler is running, as a
\* function of what happened to the connections
Quiescent ==
    /\ totalConns = Cardinality({c \in Conns : clientConn[c] # "none"})
    /\ activeConns = 0
    /\ totalBytes = SumCopied({c \in Conns : Paired(c)})
    /\ \A c \in Conns : clientConn[c] \in {"none", "closed"}
    /\ \A c \in Conns : targetConn[c] = (IF dials[c] >= 1 /\ ~DialFailed(c) THEN "closed" ELSE "none")

Served(v) ==
    /\ impl = v
    /\ \A c \in Conns : hpc[c] = "returned"
    /\ \E a, b \in Conns :
          /\ Paired(a) /\ copied[a]["c2t"] + copied[a]["t2c"] = MaxStepBytes
          /\ DialFailed(b)
    /\ totalConns = MaxConns /\ totalBytes = MaxStepBytes

C37_WitnessWaitGroup == Served("waitgroup")

(* ---------------------- properties of the bridge ----------------------- *)
\* C2: no frame of a type other than `auth` is written to a backend
\* connection for a session whose authState is not Authenticated.
C2_NoForwardBeforeAuthenticated ==
    \A i \in 1..Len(toBack) :
        toBack[i].type # "auth" => authState[toBack[i].session] = "Authenticated"

\* C2 witness: a text envelope has been forwarded for an Authenticated session
\* while another session is still Unauthenticated with its front side open
C2_Witness ==
    /\ \E i \in 1..Len(toBack) :
          toBack[i].type = "text" /\ authState[toBack[i].session] = "Authenticated"
    /\ \E s \in Sessions : frontConn[s] = "open" /\ authState[s] = "Unauthenticated"

\* C11: in every state backConn is non-null exactly when authState is
\* Authenticated, and authState, once it has left Unauthenticated, never
\* changes again (so it leaves Unauthenticated at most once and never
\* returns to it).
C11_BackConnIffAuthenticated ==
    [][\A s \in Sessions :
         /\ (backConn'[s] # "null") <=> (authState'[s] = "Authenticated")
         /\ authState[s] # "Unauthenticated" => authState'[s] = authState[s]]_vars

\* C12: the step that rejects a session emits auth_response with status
\* error, closes the front connection, and the session's back-side
\* connection has never been opened.
C12_RejectedNeverOpensBackend ==
    [][\A s \in Sessions :
         (authState[s] = "Unauthenticated" /\ authState'[s] = "Rejected")
            => /\ toFront' = <<Frame(s, "auth_response_error")>>
               /\ frontConn'[s] = "closed"
               /\ backConn[s] = "null" /\ backConn'[s] = "null"]_vars

\* C19: when an Unauthenticated session receives an envelope whose type is
\* not `auth`, the step emits an `error` envelope to that client, closes the
\* front connection, opens no backend connection and writes nothing to one.
C19_PreAuthViolationTerminates ==
    [][\A s \in Sessions :
         (handled'.session = s /\ handled'.type # "auth"
            /\ authState[s] = "Unauthenticated")
            => /\ toFront' = <<Frame(s, "error")>>
               /\ frontConn'[s] = "closed"
               /\ backConn[s] = "null" /\ backConn'[s] = "null"
               /\ toBack' = <<>>
               /\ authState'[s] # "Authenticated"]_vars

\* C19 witness: a text envelope was the first one of a session; the session
\* got an error envelope and its front side is closed, no backend connection
C19_Witness ==
    \E s \in Sessions :
        /\ handled = Frame(s, "text")
        /\ authState[s] = "Unauthenticated"
        /\ toFront = <<Frame(s, "error")>>
        /\ frontConn[s] = "closed" /\ backConn[s] = "null"

\* C20: when an Authenticated session receives an envelope of an
\* unrecognised type, the step emits an `error` envelope, writes nothing to
\* the backend and leaves the session Authenticated with both connections
\* open; and every recognised envelope an Authenticated session receives,
\* also after such an error, is forwarded to the backend.
C20_UnrecognisedIsRecoverable ==
    [][\A s \in Sessions :
         (handled'.session = s /\ authState[s] = "Authenticated")
            => IF handled'.type \in ForwardedTypes
               THEN toBack' = <<Frame(s, handled'.type)>> /\ toFront' = <<>>
               ELSE handled'.type # "auth"
                      => /\ toFront' = <<Frame(s, "error")>>
                         /\ toBack' = <<>>
                         /\ authState'[s] = "Authenticated"
                         /\ frontConn'[s] = "open" /\ backConn'[s] = "open"]_vars

\* C20 witness: an Authenticated session has just had an unrecognised
\* envelope answered with an error envelope; it is still Authenticated and
\* both of its connections are open
C20_Witness ==
    \E s \in Sessions :
        /\ handled = Frame(s, "bogus")
        /\ toFront = <<Frame(s, "error")>> /\ toBack = <<>>
        /\ authState[s] = "Authenticated"
        /\ frontConn[s] = "open" /\ backConn[s] = "open"

\* C22: the step in which one side of a session closes leaves the other side
\* closed too (the session is released); a released session stays released,
\* with its connections and authState untouched, and is never accepted
\* again; a front-side connection that is accepted starts a session that is
\* Unauthenticated, with no backend connection, no identity and nothing
\* waiting.
C22_TeardownReleasesSession ==
    [][\A s \in Sessions :
         /\ (frontConn[s] = "open" /\ frontConn'[s] = "closed") => backConn'[s] # "open"
         /\ (backConn[s] = "open" /\ backConn'[s] = "closed") => frontConn'[s] = "closed"
         /\ frontConn[s] = "closed"
              => /\ frontConn'[s] = "closed"
                 /\ backConn'[s] = backConn[s]
                 /\ authState'[s] = authState[s]
         /\ (frontConn[s] = "none" /\ frontConn'[s] = "open")
              => /\ authState'[s] = "Unauthenticated"
                 /\ backConn'[s] = "null"
                 /\ userIdentity'[s] = "none"
                 /\ authPending'[s] = "none"
                 /\ inbound'[s] = <<>>]_vars

\* C22 witness: an Authenticated session was torn down, both sides closed,
\* and the next front-side connection is open and Unauthenticated
C22_Witness ==
    \E s, r \in Sessions :
        /\ s # r
        /\ authState[s] = "Authenticated"
        /\ frontConn[s] = "closed" /\ backConn[s] = "closed"
        /\ frontConn[r] = "open" /\ authState[r] = "Unauthenticated"
        /\ backConn[r] = "null"

\* C23: while a session is open, its queue of backend frames changes only by
\* a frame arriving at the end (nothing is written to the front side) or by
\* the reader taking the frame at the head, in which case exactly one
\* envelope, of that frame's type, is written to frontConn; frames are
\* therefore delivered in arrival order, one envelope each, none dropped
\* and none twice.
C23_BackendFramesInOrder ==
    [][\A s \in Sessions :
         (frontConn'[s] = "open" /\ inbound'[s] # inbound[s])
           => \/ /\ \E type \in FrameTypes : inbound'[s] = Append(inbound[s], type)
                 /\ toFront' = <<>>
              \/ /\ inbound[s] # <<>>
                 /\ inbound'[s] = Tail(inbound[s])
                 /\ toFront' = <<Frame(s, Head(inbound[s]))>>
                 /\ authState[s] = "Authenticated"]_vars

\* C23 witness: `text` arrived before `audio`; the `text` envelope has just
\* been written and `audio` is still waiting
C23_Witness ==
    \E s \in Sessions :
        /\ toFront = <<Frame(s, "text")>>
        /\ inbound[s] = <<"audio">>
        /\ authState[s] = "Authenticated"

\* the fields of session s
SessionFields(s) ==
    <<authState[s], frontConn[s], backConn[s], userIdentity[s], inbound[s], authPending[s]>>

\* the front-side reader of session s takes a step: it handles an envelope, or
\* completes the authentication it started when the backend's answer is in
FrontReaderStep(s) ==
    \/ \E env \in Envelopes : \E dialOk \in DialOutcomes(env) : HandleEnvelope(s, env, dialOk)
    \/ AuthResult(s)

\* C31: within a session only the front-side reader changes authState; while
\* the authentication of a session is in progress no envelope of that session
\* is dispatched and its authState still reads Unauthenticated, and a
\* non-auth envelope begins translation only in a step that reads and leaves
\* authState as Authenticated; every step changes the fields of at most one
\* session.
C31_AuthStateSingleWriter ==
    [][/\ \A s \in Sessions :
            /\ authState'[s] # authState[s] => FrontReaderStep(s)
            /\ authPending[s] # "none"
                 => /\ authState[s] = "Unauthenticated"
                    /\ handled'.session # s
                    /\ \A i \in 1..Len(toBack') : toBack'[i].session # s
            /\ (\E i \in 1..Len(toBack') :
                    toBack'[i].session = s /\ toBack'[i].type # "auth")
                 => /\ authState[s] = "Authenticated"
                    /\ authState'[s] = "Authenticated"
                    /\ authPending[s] = "none" /\ authPending'[s] = "none"
       /\ \A s, r \in Sessions :
            (SessionFields(s)' # SessionFields(s) /\ SessionFields(r)' # SessionFields(r))
                => s = r
      ]_vars

\* a text envelope of one session has just been translated while another
\* session is in the middle of its authentication and a backend frame of the
\* first session waits for its back-side reader
C31_Witness ==
    \E s, r \in Sessions :
        /\ s # r
        /\ toBack = <<Frame(s, "text")>>
        /\ inbound[s] # <<>>
        /\ authPending[r] # "none"

C26_BackendUnavailableIsObserved ==
    /\ \A c \in Conns :
          /\ (DialFailed(c) /\ hpc[c] # "dialFailed") => clientConn[c] = "closed"
          /\ (clientConn[c] \in {"open", "wclosed"}
                /\ hpc[c] \notin {"idle", "start", "incActive", "dial", "dialFailed"})
               => targetConn[c] \in {"open", "wclosed"}
    /\ \A s \in Sessions :
          /\ authState[s] = "Rejected" => frontConn[s] = "closed"
          /\ (handled = Frame(s, "auth") /\ authState[s] = "Rejected"
                /\ backConn[s] = "null")
               => toFront = <<Frame(s, "auth_response_error")>>
          /\ (frontConn[s] = "open" /\ backConn[s] # "open")
               => authState[s] = "Unauthenticated" /\ authPending[s] = "none"

\* C26 witness: a proxy handler has returned after a failed dial with its
\* client connection closed, and a bridge session has just met a failed dial
\* on a non-empty token: rejected, front connection closed, no backend
C26_Witness ==
    /\ \E c \in Conns :
          DialFailed(c) /\ hpc[c] = "returned" /\ clientConn[c] = "closed"
    /\ \E s \in Sessions :
          /\ handled = Frame(s, "auth")
          /\ authState[s] = "Rejected" /\ backConn[s] = "null"
          /\ frontConn[s] = "closed"
          /\ toFront = <<Frame(s, "auth_response_error")>>

(* -------------------- properties of the audio player -------------------- *)
\* C39: at most one buffer is playing at any time, and isPlaying is false
\* only when no buffer is playing.
C39_OneBufferPlaying ==
    /\ Cardinality(playing) <= 1
    /\ ~isPlaying => playing = {}

====
